---- MODULE Spec2Model ----
(***************************************************************************)
(* Dynamic Ensemble Reasoning (DER): the per-run pipeline                  *)
(*   load_memory -> normalize_task -> load_prompts ->                      *)
(*   select_role_assignments -> build_agent_inputs -> run_agents ->        *)
(*   chairman_merge -> update_files -> update_directory_structure ->       *)
(*   write_memory                                                          *)
(* together with the pure helpers it relies on (repair_memory,             *)
(* next_run_id, is_within_base, load_output, calculate_stats).             *)
(*                                                                         *)
(* Conventions.                                                            *)
(*  - A Python str is a sequence of tokens, so that strip(), lower(),      *)
(*    startswith(), split() and int() are computed, not assumed.  The      *)
(*    tokens of a run id are its characters; an identifier ("M1"), a       *)
(*    keyword ("mid") or a path component ("code") is one token, and "/"   *)
(*    is the path separator token.                                         *)
(*  - A JSON value is a tagged record: [t |-> "null"], [t |-> "str", s],   *)
(*    [t |-> "num", q] (q a rational <<num, den>>), [t |-> "bool", b],     *)
(*    [t |-> "list", l] or [t |-> "obj", ...]; isinstance() is a test of   *)
(*    the tag.                                                             *)
(*  - A Python float is a binary floating-point number with a MantBits-bit *)
(*    significand, rounded to nearest, ties to even (binary64 has 53       *)
(*    bits); an int is exact.                                              *)
(*  - A resolved filesystem path is the sequence of its components below  *)
(*    "/"; Path.resolve() is computed on the components.                   *)
(***************************************************************************)
EXTENDS Integers, Sequences, FiniteSets, TLC

(***************************************************************************)
(* Bounds of the model.                                                    *)
(***************************************************************************)
\* significand width of the modelled float format
MantBits == 5
\* number of pipeline runs explored from the initial workspace
MaxRuns == 4

(***************************************************************************)
(* Characters and strings.                                                 *)
(***************************************************************************)
\* the tokens that are compared by the model, in Python's str order
AsciiOrder == <<" ", "+", "-", "0", "1", "2", "3", "4", "5", "6", "7", "8", "9",
                "C1", "M1", "M2", "M3", "_", "architect", "f", "implementer", "n", "o",
                "r", "u", "x">>

CharCode(c) == CHOOSE i \in 1..Len(AsciiOrder) : AsciiOrder[i] = c

Digits == <<"0", "1", "2", "3", "4", "5", "6", "7", "8", "9">>

IsDigit(c) == \E i \in 1..10 : Digits[i] = c

DigitVal(c) == (CHOOSE i \in 1..10 : Digits[i] = c) - 1

IsSpace(c) == c \in {" ", "\n"}

\* str.lower(), token by token
LowerTok(c) ==
    CASE c = "MID" -> "mid"
      [] c = "OpenAI" -> "openai"
      [] c = "ITERATE" -> "iterate"
      [] c = "Bootstrap" -> "bootstrap"
      [] OTHER -> c

Lower(s) == [i \in 1..Len(s) |-> LowerTok(s[i])]

\* str.lstrip() / str.rstrip() / str.strip()
RECURSIVE LStrip(_)
LStrip(s) == IF s # <<>> /\ IsSpace(Head(s)) THEN LStrip(Tail(s)) ELSE s

RECURSIVE RStrip(_)
RStrip(s) == IF s # <<>> /\ IsSpace(s[Len(s)]) THEN RStrip(SubSeq(s, 1, Len(s) - 1)) ELSE s

Strip(s) == RStrip(LStrip(s))

\* str.startswith(p)
StartsWith(s, p) == Len(s) >= Len(p) /\ SubSeq(s, 1, Len(p)) = p

\* Python's order on str (code points, then length)
RECURSIVE StrLess(_, _)
StrLess(a, b) ==
    IF a = <<>> THEN b # <<>>
    ELSE IF b = <<>> THEN FALSE
    ELSE IF Head(a) = Head(b) THEN StrLess(Tail(a), Tail(b))
    ELSE CharCode(Head(a)) < CharCode(Head(b))

\* sorted(S) for a finite set of str
RECURSIVE SortedIds(_)
SortedIds(S) ==
    IF S = {} THEN <<>>
    ELSE LET m == CHOOSE x \in S : \A y \in S \ {x} : StrLess(x, y)
         IN <<m>> \o SortedIds(S \ {m})

(***************************************************************************)
(* Numbers.  A number is a rational <<num, den>>, den > 0, in lowest       *)
(* terms; Python ints are the rationals of denominator 1.                  *)
(***************************************************************************)
Abs(n) == IF n < 0 THEN -n ELSE n

RECURSIVE Gcd(_, _)
Gcd(a, b) == IF b = 0 THEN a ELSE Gcd(b, a % b)

\* n/d with the common factor g removed and the sign carried by the numerator
Reduced(n, d, g) == IF d < 0 THEN <<-(n \div g), -(d \div g)>> ELSE <<n \div g, d \div g>>

Rat(n, d) == IF n = 0 THEN <<0, 1>> ELSE Reduced(n, d, Gcd(Abs(n), Abs(d)))

Int2Rat(n) == <<n, 1>>

RLe(a, b) == a[1] * b[2] <= b[1] * a[2]

RLt(a, b) == a[1] * b[2] < b[1] * a[2]

RAddExact(a, b) == Rat(a[1] * b[2] + b[1] * a[2], a[2] * b[2])

RSubExact(a, b) == Rat(a[1] * b[2] - b[1] * a[2], a[2] * b[2])

RMulExact(a, b) == Rat(a[1] * b[1], a[2] * b[2])

RDivExact(a, b) == Rat(a[1] * b[2], a[2] * b[1])

RECURSIVE Pow2(_)
Pow2(k) == IF k = 0 THEN 1 ELSE 2 * Pow2(k - 1)

\* int(x) of a number: truncation toward zero
PyInt(q) == IF q[1] >= 0 THEN q[1] \div q[2] ELSE -((-q[1]) \div q[2])

\* Round a rational to the nearest float of MantBits significant bits, ties
\* to even: the rounding every float operation of the source ends with.
\* |q| = sn/sd scaled by 2^(-e): numerator and denominator of the scaled value
ScaledNum(a, e) == IF e < 0 THEN a * Pow2(-e) ELSE a

ScaledDen(d, e) == IF e < 0 THEN d ELSE d * Pow2(e)

\* the exponent that puts (a/d) / 2^exponent in [2^(MantBits-1), 2^MantBits),
\* found by halving or doubling from e
RECURSIVE FlExponent(_, _, _)
FlExponent(a, d, e) ==
    IF a >= Pow2(MantBits) * d THEN FlExponent(a, 2 * d, e + 1)
    ELSE IF a < Pow2(MantBits - 1) * d THEN FlExponent(2 * a, d, e - 1)
    ELSE e

\* sn/sd rounded to the nearest integer, ties to even
RoundHalfEven(m0, r2, sd) == IF r2 > sd \/ (r2 = sd /\ m0 % 2 = 1) THEN m0 + 1 ELSE m0

RoundDiv(sn, sd) == RoundHalfEven(sn \div sd, 2 * (sn % sd), sd)

\* m * 2^e as a rational
Scale(m, e) == IF e < 0 THEN Rat(m, Pow2(-e)) ELSE Rat(m * Pow2(e), 1)

FlAt(sg, a, d, e) == Scale(sg * RoundDiv(ScaledNum(a, e), ScaledDen(d, e)), e)

Fl(q) ==
    IF q[1] = 0 THEN <<0, 1>>
    ELSE FlAt(IF q[1] < 0 THEN -1 ELSE 1, Abs(q[1]), q[2], FlExponent(Abs(q[1]), q[2], 0))

FAdd(a, b) == Fl(RAddExact(a, b))

FSub(a, b) == Fl(RSubExact(a, b))

FMul(a, b) == Fl(RMulExact(a, b))

FDiv(a, b) == Fl(RDivExact(a, b))

Zero == <<0, 1>>

One == <<1, 1>>

Half == <<1, 2>>

(***************************************************************************)
(* JSON values.                                                            *)
(***************************************************************************)
Null == [t |-> "null"]

Str(s) == [t |-> "str", s |-> s]

Num(q) == [t |-> "num", q |-> q]

Bool(b) == [t |-> "bool", b |-> b]

\* the JSON number written n/d in decimal
Dec(n, d) == Num(<<n, d>>)

List(l) == [t |-> "list", l |-> l]

\* isinstance(v, str)
IsStr(v) == v.t = "str"

\* isinstance(v, (int, float)): bool is a subclass of int
IsNumber(v) == v.t \in {"num", "bool"}

\* the numeric value of a JSON number (True is 1, False is 0)
NumOf(v) == IF v.t = "bool" THEN (IF v.b THEN One ELSE Zero) ELSE v.q

IsList(v) == v.t = "list"

IsDict(v) == v.t = "obj"

(***************************************************************************)
(* next_run_id (persist.py).                                               *)
(***************************************************************************)
RunPrefix == <<"r", "u", "n", "_">>

\* int(s) of a str: surrounding whitespace, an optional sign, digits that
\* may be grouped by single underscores; [ok |-> FALSE] stands for ValueError
IsIntDigits(r) ==
    /\ r # <<>>
    /\ IsDigit(r[1])
    /\ IsDigit(r[Len(r)])
    /\ \A i \in 1..Len(r) : IsDigit(r[i]) \/ r[i] = "_"
    /\ \A i \in 1..(Len(r) - 1) : ~(r[i] = "_" /\ r[i + 1] = "_")

RECURSIVE DigitsValue(_)
DigitsValue(r) ==
    IF r = <<>> THEN 0
    ELSE IF r[Len(r)] = "_" THEN DigitsValue(SubSeq(r, 1, Len(r) - 1))
    ELSE 10 * DigitsValue(SubSeq(r, 1, Len(r) - 1)) + DigitVal(r[Len(r)])

IntOfDigits(negative, r) ==
    IF ~IsIntDigits(r) THEN [ok |-> FALSE, n |-> 0]
    ELSE [ok |-> TRUE, n |-> IF negative THEN -DigitsValue(r) ELSE DigitsValue(r)]

IntOfStripped(b) ==
    IF b # <<>> /\ Head(b) \in {"+", "-"} THEN IntOfDigits(Head(b) = "-", Tail(b))
    ELSE IntOfDigits(FALSE, b)

IntOfStr(s) == IntOfStripped(Strip(s))

\* the decimal digits of a natural number
RECURSIVE DecDigits(_)
DecDigits(n) == IF n < 10 THEN <<Digits[n + 1]>> ELSE DecDigits(n \div 10) \o <<Digits[(n % 10) + 1]>>

RECURSIVE ZeroPad(_, _)
ZeroPad(ds, w) == IF Len(ds) >= w THEN ds ELSE ZeroPad(<<"0">> \o ds, w)

\* f"{n:06d}": the sign counts in the width of 6
Format06d(n) == IF n < 0 THEN <<"-">> \o ZeroPad(DecDigits(-n), 5) ELSE ZeroPad(DecDigits(n), 6)

RunOne == RunPrefix \o <<"0", "0", "0", "0", "0", "1">>

RunZero == RunPrefix \o <<"0", "0", "0", "0", "0", "0">>

\* "return f'run_{n+1:06d}'", or the fall-through when int() raised
RunIdAfter(parsed) == IF parsed.ok THEN RunPrefix \o Format06d(parsed.n + 1) ELSE RunOne

\* the id is reformatted without the increment
next_run_id_NoIncrement(last_run_id) ==
    IF IsStr(last_run_id) /\ StartsWith(last_run_id.s, RunPrefix)
    THEN RunPrefix \o Format06d(IntOfStr(SubSeq(last_run_id.s, 5, Len(last_run_id.s))).n)
    ELSE RunOne

\* next_run_id: split("_", 1)[1] is what follows the prefix "run_"
next_run_id(last_run_id) ==
    IF IsStr(last_run_id) /\ StartsWith(last_run_id.s, RunPrefix)
    THEN RunIdAfter(IntOfStr(SubSeq(last_run_id.s, 5, Len(last_run_id.s))))
    ELSE RunOne

(***************************************************************************)
(* Dictionaries and paths.                                                 *)
(***************************************************************************)
EmptyDict == [k \in {} |-> Null]

Obj(f) == [t |-> "obj", f |-> f]

\* d.get(k) on a value already known to be a dict
Get(v, k) == IF k \in DOMAIN v.f THEN v.f[k] ELSE Null

\* x = d.get(k) preceded by "if not isinstance(d, dict): d = {}"
DictGet(v, k) == IF IsDict(v) THEN Get(v, k) ELSE Null

\* "if not isinstance(x, dict): x = {}"
AsDict(v) == IF IsDict(v) THEN v ELSE Obj(EmptyDict)

\* d[k] = v
SetKey(v, k, x) == Obj((k :> x) @@ v.f)

\* the str whose only token is k (an identifier, a keyword)
Tok(k) == Str(<<k>>)

\* sorted(d.keys()) for identifier keys
SortedKeys(v) ==
    LET ids == SortedIds({<<k>> : k \in DOMAIN v.f})
    IN [i \in 1..Len(ids) |-> ids[i][1]]

\* the working directory of the process, which is the workspace root
Cwd == <<"ws">>

\* the components of a path string
RECURSIVE PathComponents(_)
PathComponents(s) ==
    IF s = <<>> THEN <<>>
    ELSE IF Head(s) = "/" THEN PathComponents(Tail(s))
    ELSE <<Head(s)>> \o PathComponents(Tail(s))

RECURSIVE Normalise(_, _)
Normalise(acc, comps) ==
    IF comps = <<>> THEN acc
    ELSE IF Head(comps) = "." THEN Normalise(acc, Tail(comps))
    ELSE IF Head(comps) = ".."
         THEN Normalise(IF acc = <<>> THEN acc ELSE SubSeq(acc, 1, Len(acc) - 1), Tail(comps))
    ELSE Normalise(Append(acc, Head(comps)), Tail(comps))

\* Path(s).resolve(): absolute, "." and ".." removed (the model has no
\* symbolic links); the result is the sequence of components below "/"
Resolve(s) ==
    Normalise(IF s # <<>> /\ Head(s) = "/" THEN <<>> ELSE Cwd, PathComponents(s))

\* str(path) of an absolute path
RECURSIVE PathStr(_)
PathStr(parts) == IF parts = <<>> THEN <<>> ELSE <<"/", Head(parts)>> \o PathStr(Tail(parts))

IsPrefix(a, b) == Len(a) <= Len(b) /\ SubSeq(b, 1, Len(a)) = a

\* the directories mkdir(parents=True) makes sure exist
Ancestors(parts) == {SubSeq(parts, 1, i) : i \in 1..Len(parts)}

(***************************************************************************)
(* Memory repair (memory/store.py).                                        *)
(***************************************************************************)
ROLES == <<"architect", "implementer">>

COST_TIERS == {<<"low">>, <<"mid">>, <<"high">>}

PROVIDERS == {<<"gemini">>, <<"openai">>, <<"anthropic">>}

\* float(x) for a JSON number
Float(v) == Fl(NumOf(v))

InRange(x, lo, hi) == RLe(lo, x) /\ RLe(x, hi)

\* "not isinstance(x, (int, float)) or not (lo <= float(x) <= hi)"
NotInRange(v, lo, hi) == ~IsNumber(v) \/ ~InRange(Float(v), lo, hi)

\* x when it lies in [lo, hi], the default otherwise
WithinOr(x, lo, hi, default) == IF InRange(x, lo, hi) THEN x ELSE default

\* "if not isinstance(x, (int, float)) or not (lo <= float(x) <= hi):
\*      x = default" followed by "x = float(x)"
FloatInRangeOr(v, lo, hi, default) ==
    IF ~IsNumber(v) THEN default ELSE WithinOr(Float(v), lo, hi, default)

\* "role_weight = weighted_inputs.get(role, 0.5)", replaced by 0.5 when it is
\* not a number or is negative, then float()
role_weight(weighted_inputs, role) ==
    IF role \notin DOMAIN weighted_inputs.f THEN Fl(Half)
    ELSE IF ~IsNumber(weighted_inputs.f[role]) \/ RLt(NumOf(weighted_inputs.f[role]), Zero)
    THEN Fl(Half)
    ELSE Float(weighted_inputs.f[role])

\* each weight divided by the total, or 1/len(ROLES) when the total is not
\* positive
divide_weights(architect, implementer, total) ==
    IF RLe(total, Zero)
    THEN Obj([architect |-> Num(FDiv(One, Int2Rat(2))), implementer |-> Num(FDiv(One, Int2Rat(2)))])
    ELSE Obj([architect |-> Num(FDiv(architect, total)),
              implementer |-> Num(FDiv(implementer, total))])

\* sum() adds the weights to the int 0, left to right
sum_weights(architect, implementer) ==
    divide_weights(architect, implementer, FAdd(FAdd(Zero, architect), implementer))

calculate_weights(weighted_inputs) ==
    sum_weights(role_weight(weighted_inputs, ROLES[1]), role_weight(weighted_inputs, ROLES[2]))

\* "int(x)" of a number, the default when x is not a number
IntOr(v, default) == IF ~IsNumber(v) THEN Num(default) ELSE Num(Int2Rat(PyInt(NumOf(v))))

repair_cell_fields(n, mean_reward, mean_cost, last_used_run_id, ucb) ==
    Obj([n |-> IF ~IsNumber(n) \/ RLt(NumOf(n), Zero) THEN Num(Zero)
               ELSE Num(Int2Rat(PyInt(NumOf(n)))),
         mean_reward |-> Num(FloatInRangeOr(mean_reward, Zero, One, Zero)),
         mean_cost |-> Num(FloatInRangeOr(mean_cost, Zero, One, Zero)),
         last_used_run_id |-> IF last_used_run_id # Null
                                 /\ (~IsStr(last_used_run_id) \/ Strip(last_used_run_id.s) = <<>>)
                              THEN Null ELSE last_used_run_id,
         ucb |-> IF ~IsNumber(ucb) THEN Num(Zero) ELSE Num(Float(ucb))])

repair_cell(cell) ==
    repair_cell_fields(DictGet(cell, "n"), DictGet(cell, "mean_reward"),
                       DictGet(cell, "mean_cost"), DictGet(cell, "last_used_run_id"),
                       DictGet(cell, "ucb"))

model_defaults ==
    [M1 |-> Obj([label |-> Tok("Gemini 2.5 Pro"), cost_tier |-> Tok("mid"),
                 provider |-> Tok("gemini"), provider_model |-> Tok("gemini-2.5-pro"),
                 params |-> Obj([temperature |-> Num(Zero)])]),
     M2 |-> Obj([label |-> Tok("Claude Sonnet 4.5"), cost_tier |-> Tok("mid"),
                 provider |-> Tok("anthropic"),
                 provider_model |-> Tok("claude-sonnet-4-5-20250929"),
                 params |-> Obj([temperature |-> Num(Zero)])])]

chairman_defaults ==
    [C1 |-> Obj([label |-> Tok("GPT-4.1 Chairman"), provider |-> Tok("openai"),
                 provider_model |-> Tok("gpt-4.1"),
                 params |-> Obj([temperature |-> Num(Zero)]), cost_tier |-> Tok("mid")])]

\* "x.strip().lower()" of a str, x itself otherwise
NormalisedOr(v) == IF IsStr(v) THEN Str(Lower(Strip(v.s))) ELSE v

\* the five canonical keys of a repaired pool entry; tier and prov are the
\* normalised cost_tier and provider
repair_pool_fields(cur, specs, max_temperature, cost_tier, tier, prov, provider_model, params) ==
    Obj([label |-> IF "label" \in DOMAIN cur.f THEN cur.f["label"] ELSE Get(specs, "label"),
         cost_tier |-> IF IsStr(tier) /\ tier.s \in COST_TIERS THEN cost_tier
                       ELSE Get(specs, "cost_tier"),
         provider |-> IF IsStr(prov) /\ prov.s \in PROVIDERS THEN prov
                      ELSE Get(specs, "provider"),
         provider_model |-> IF ~IsStr(provider_model) \/ Strip(provider_model.s) = <<>>
                            THEN Get(specs, "provider_model")
                            ELSE Str(Strip(provider_model.s)),
         params |-> SetKey(params, "temperature",
                           Num(FloatInRangeOr(Get(params, "temperature"), Zero, max_temperature,
                                              Float(Get(Get(specs, "params"), "temperature")))))])

repair_pool_dict(cur, specs, max_temperature) ==
    repair_pool_fields(cur, specs, max_temperature, Get(cur, "cost_tier"),
                       NormalisedOr(Get(cur, "cost_tier")), NormalisedOr(Get(cur, "provider")),
                       Get(cur, "provider_model"), AsDict(Get(cur, "params")))

\* one pass of the loop that repairs an entry of model_pool or chairman_pool
\* (max_temperature is 1.0 for a model and 2 for a chairman), followed by
\* the projection on the five canonical keys
repair_pool_entry(pool, id, specs, max_temperature) ==
    IF ~IsDict(Get(pool, id)) THEN specs
    ELSE repair_pool_dict(Get(pool, id), specs, max_temperature)

\* the stored str is kept, stripped, whether or not it is one of the ids
MemberOrDefault_Stored(v, ids, default) == IF IsStr(v) THEN Str(Strip(v.s)) ELSE default

\* "x.strip() if isinstance(x, str) and x.strip() in ids else default"
MemberOrDefault(v, ids, default) ==
    IF IsStr(v) /\ \E i \in 1..Len(ids) : Strip(v.s) = <<ids[i]>>
    THEN Str(Strip(v.s)) ELSE default

\* the per-model buckets of chairman_summary_store and chairman_edits
repair_buckets(store, model_ids) ==
    Obj([bootstrap |-> Obj([m \in {model_ids[i] : i \in 1..Len(model_ids)} |->
                               AsDict(Get(AsDict(DictGet(store, "bootstrap")), m))]),
         iterate |-> AsDict(DictGet(store, "iterate"))])

\* the stored base directory as a str, empty when it is not one
stored_base_path(memory) ==
    IF IsStr(DictGet(DictGet(memory, "directory_structure"), "base_path"))
    THEN Strip(DictGet(DictGet(memory, "directory_structure"), "base_path").s)
    ELSE <<>>

base_path_or_default(resolved, text, root, dirs) ==
    IF text # <<>> /\ resolved \in dirs THEN resolved ELSE root \o <<"code">>

\* the base directory chosen by repair_memory: the stored one when it names
\* an existing directory, <root>/code otherwise
repair_base_path(memory, root, dirs) ==
    base_path_or_default(Resolve(stored_base_path(memory)), stored_base_path(memory), root, dirs)

\* "x.strip() if isinstance(x, str) else default"
StripOr(v, default) == IF IsStr(v) THEN Str(Strip(v.s)) ELSE Str(default)

IntWithinOr(n, lo, hi, default) ==
    IF lo <= n /\ n <= hi THEN Num(Int2Rat(n)) ELSE Num(Int2Rat(default))

\* an integer field: "int(x)" when x is a number whose int() lies in lo..hi
IntInRangeOr(v, lo, hi, default) ==
    IF ~IsNumber(v) THEN Num(Int2Rat(default)) ELSE IntWithinOr(PyInt(NumOf(v)), lo, hi, default)

\* a timeout: the range test is on the number itself, int() comes after
TimeoutOr(v, default) ==
    IF ~IsNumber(v) \/ ~(RLe(Int2Rat(300), NumOf(v)) /\ RLe(NumOf(v), Int2Rat(360)))
    THEN Num(Int2Rat(default)) ELSE Num(Int2Rat(PyInt(NumOf(v))))

\* the stored entries of other ids are kept beside the repaired defaults
repair_model_pool_KeepStored(model_pool) ==
    Obj([m \in DOMAIN model_defaults \cup DOMAIN AsDict(model_pool).f |->
            IF m \in DOMAIN model_defaults
            THEN repair_pool_entry(model_pool, m, model_defaults[m], One)
            ELSE model_pool.f[m]])

repair_model_pool(model_pool) ==
    Obj([m \in DOMAIN model_defaults |->
            repair_pool_entry(model_pool, m, model_defaults[m], One)])

repair_chairman_pool(chairman_pool) ==
    Obj([c \in DOMAIN chairman_defaults |->
            repair_pool_entry(chairman_pool, c, chairman_defaults[c], Int2Rat(2))])

\* the cells of the ids the stored value holds, repaired
repair_role_model_stats_StoredIds(role_model_stats, model_ids) ==
    Obj([role \in {ROLES[1], ROLES[2]} |->
            Obj([m \in DOMAIN AsDict(Get(role_model_stats, role)).f |->
                    repair_cell(Get(AsDict(Get(role_model_stats, role)), m))])])

repair_role_model_stats(role_model_stats, model_ids) ==
    Obj([role \in {ROLES[1], ROLES[2]} |->
            Obj([m \in {model_ids[i] : i \in 1..Len(model_ids)} |->
                    repair_cell(Get(AsDict(Get(role_model_stats, role)), m))])])

repair_routing_policy(routing_policy) ==
    Obj([ucb_c |-> Num(FloatInRangeOr(Get(routing_policy, "ucb_c"), Zero, One, Fl(Half))),
         cost_penalty |-> Num(FloatInRangeOr(Get(routing_policy, "cost_penalty"), Zero, One,
                                             Fl(<<2, 5>>)))])

repair_exploration(exploration) ==
    Obj([warmup_runs |-> IntInRangeOr(Get(exploration, "warmup_runs"), 0, 5, 3),
         runs_completed |-> IntOr(Get(exploration, "runs_completed"), Zero)])

repair_timeout_defaults(timeout_defaults) ==
    Obj([run_agents_timeout_s |-> TimeoutOr(Get(timeout_defaults, "run_agents_timeout_s"), 300),
         chairman_timeout_s |-> TimeoutOr(Get(timeout_defaults, "chairman_timeout_s"), 360)])

\* the node of one model in directory_structure
repair_model_node(current_model, model_path) ==
    Obj([path |-> Str(PathStr(model_path)),
         dirs |-> IF IsDict(Get(current_model, "dirs")) THEN Get(current_model, "dirs")
                  ELSE Obj(EmptyDict),
         files |-> IF IsList(Get(current_model, "files")) THEN Get(current_model, "files")
                   ELSE List(<<>>)])

repair_directory_structure(directory_structure, base_path, model_ids) ==
    Obj(("base_path" :> Str(PathStr(base_path)))
        @@ [m \in {model_ids[i] : i \in 1..Len(model_ids)} |->
               repair_model_node(AsDict(Get(directory_structure, m)), base_path \o <<m>>)])

default_chairman(chairman_ids, model_ids) ==
    IF Len(chairman_ids) > 0 THEN Tok(chairman_ids[1])
    ELSE IF Len(model_ids) > 0 THEN Tok(model_ids[1]) ELSE Null

\* the repaired memory, from its repaired pools and their sorted ids
repair_fields(memory, model_pool, model_ids, chairman_pool, chairman_ids, base_path) ==
    Obj([current_run_id |-> StripOr(Get(memory, "current_run_id"), RunOne),
         last_run_id |-> StripOr(Get(memory, "last_run_id"), RunZero),
         weighted_inputs |-> calculate_weights(AsDict(Get(memory, "weighted_inputs"))),
         model_pool |-> model_pool,
         chairman_pool |-> chairman_pool,
         chairman_active |-> MemberOrDefault(Get(memory, "chairman_active"), chairman_ids,
                                             default_chairman(chairman_ids, model_ids)),
         role_model_stats |->
             repair_role_model_stats(AsDict(Get(memory, "role_model_stats")), model_ids),
         routing_policy |-> repair_routing_policy(AsDict(Get(memory, "routing_policy"))),
         exploration |-> repair_exploration(AsDict(Get(memory, "exploration"))),
         chairman_summary_store |->
             repair_buckets(Get(memory, "chairman_summary_store"), model_ids),
         timeout_defaults |-> repair_timeout_defaults(AsDict(Get(memory, "timeout_defaults"))),
         directory_structure |->
             repair_directory_structure(AsDict(Get(memory, "directory_structure")), base_path,
                                        model_ids),
         final_model |-> MemberOrDefault(Get(memory, "final_model"), model_ids, Tok("M1")),
         chairman_edits |-> repair_buckets(Get(memory, "chairman_edits"), model_ids)])

repair_pools(memory, model_pool, chairman_pool, base_path) ==
    repair_fields(memory, model_pool, SortedKeys(model_pool), chairman_pool,
                  SortedKeys(chairman_pool), base_path)

repair_dict(memory, root, dirs) ==
    repair_pools(memory, repair_model_pool(AsDict(Get(memory, "model_pool"))),
                 repair_chairman_pool(AsDict(Get(memory, "chairman_pool"))),
                 repair_base_path(memory, root, dirs))

\* repair_memory(memory, first_run, root_path); first_run is not read by the
\* function.  dirs is the set of directories that exist when it is called.
repair_memory(memory_in, root, dirs) == repair_dict(AsDict(memory_in), root, dirs)

mkdirs_below(base_path, dirs) ==
    dirs \cup Ancestors(base_path)
         \cup UNION {Ancestors(base_path \o <<m>>) : m \in DOMAIN model_defaults}

\* the directories repair_memory creates (mkdir(parents=True, exist_ok=True))
repair_mkdirs(memory_in, root, dirs) ==
    mkdirs_below(repair_base_path(AsDict(memory_in), root, dirs), dirs)

(***************************************************************************)
(* State.                                                                  *)
(***************************************************************************)
VARIABLES
    pc,               \* the stage of the pipeline the process is about to execute
    runNo,            \* number of the run in progress, counted from the initial workspace
    memFile,          \* memory/memory.json
    prevMemFile,      \* memory/previous_memory.json
    taskFile,         \* task/task.json
    prevTaskFile,     \* task/previous_task.json
    dirs,             \* the directories that exist
    files,            \* the regular files below the workspace and their text
    memory,           \* DERState.memory
    task,             \* DERState.task
    first_run,        \* DERState.first_run
    role_assignments, \* DERState.role_assignments
    agent_calls,      \* DERState.agent_calls
    agent_results,    \* DERState.agent_results
    obs,              \* what an observer of the run has recorded (history)
    rep,              \* repair_memory applied once and twice to a stored value
    scan              \* load_output applied to a provider text

vars == <<pc, runNo, memFile, prevMemFile, taskFile, prevTaskFile, dirs, files,
          memory, task, first_run, role_assignments, agent_calls, agent_results,
          obs, rep, scan>>

pipelineVars == <<pc, runNo, memFile, prevMemFile, taskFile, prevTaskFile, files,
                  memory, task, first_run, role_assignments, agent_calls,
                  agent_results, obs>>

\* a file that does not exist
Missing == [t |-> "missing"]

\* a file that was opened for writing and holds the first chunks of the text
Partial(chunks) == [t |-> "partial", chunks |-> chunks]

Root == <<"ws">>

\* nothing observed yet in the run
IdleObs ==
    [startId |-> Null, startRuns |-> Null, callLog |-> <<>>, statsBefore |-> Null,
     scores |-> <<>>, written |-> {}, preFiles |-> EmptyDict, indexBefore |-> Null,
     statsAtWrite |-> Null, preMem |-> Null, chairmanLog |-> <<>>,
     rawMem |-> Null, startTask |-> Null, overviewLog |-> <<>>]

IdleRep == [step |-> 0, v |-> Null, once |-> Null, twice |-> Null]

IdleScan == [step |-> "idle"]

\* the process before load_memory of a run has started, nothing on disk
IdlePipeline ==
    /\ pc = "load_memory"
    /\ runNo = 1
    /\ memFile = Missing
    /\ prevMemFile = Missing
    /\ taskFile = Missing
    /\ prevTaskFile = Missing
    /\ files = EmptyDict
    /\ memory = Null
    /\ task = Null
    /\ first_run = FALSE
    /\ role_assignments = Null
    /\ agent_calls = <<>>
    /\ agent_results = EmptyDict
    /\ obs = IdleObs

(***************************************************************************)
(* Task (task/state.py).                                                   *)
(***************************************************************************)
PHASES == {<<"bootstrap">>, <<"iterate">>}

LANGUAGES == {<<"python">>, <<"c++">>, <<"java">>}

STYLES == {<<"clean">>, <<"minimal">>, <<"performance">>}

\* "x.strip().lower() if isinstance(x, str) and x.strip().lower() in S else default"
ChoiceOr(v, S, default) ==
    IF IsStr(v) /\ Lower(Strip(v.s)) \in S THEN Str(Lower(Strip(v.s))) ELSE default

\* the phase a stage reads from state["task"]
PhaseOf(t) == ChoiceOr(DictGet(t, "phase"), PHASES, Tok("bootstrap")).s[1]

\* the task built from the operator's four answers
collect_task_values(answers) ==
    Obj([phase |-> ChoiceOr(Str(answers.phase), PHASES, Tok("bootstrap")),
         goal |-> Str(Strip(answers.goal)),
         language |-> ChoiceOr(Str(answers.language), LANGUAGES, Tok("python")),
         style |-> ChoiceOr(Str(answers.style), STYLES, Tok("clean"))])

\* the task derived from the memory and the stored task; a field is Null
\* where the function returns None
parse_task(mem, task_json) ==
    LET exploration == AsDict(Get(mem, "exploration"))
        warmup_runs == IntInRangeOr(Get(exploration, "warmup_runs"), 0, 3, 3)
        runs_completed == IntOr(Get(exploration, "runs_completed"), Zero)
    IN Obj([phase |-> IF RLe(warmup_runs.q, runs_completed.q) THEN Tok("iterate")
                      ELSE Tok("bootstrap"),
            goal |-> IF IsStr(Get(task_json, "goal")) THEN Str(Strip(Get(task_json, "goal").s))
                     ELSE Null,
            language |-> ChoiceOr(Get(task_json, "language"), LANGUAGES, Null),
            style |-> ChoiceOr(Get(task_json, "style"), STYLES, Null)])

\* json.load of a file: None when the file is missing or is not a complete
\* JSON text
LoadJson(file) == IF file.t \in {"missing", "partial"} THEN Null ELSE file

(***************************************************************************)
(* The stages before the agents run.                                       *)
(***************************************************************************)
\* store.py: load_memory / load_or_create_memory
load_memory ==
    /\ pc = "load_memory"
    /\ \E memory_json \in {IF LoadJson(memFile) = Null THEN Obj(EmptyDict)
                           ELSE LoadJson(memFile)},
          made \in {dirs \cup Ancestors(Root \o <<"memory">>)} :
          \E repaired \in {repair_memory(memory_json, Root, made)} :
              /\ memory' = repaired
              /\ first_run' = (LoadJson(memFile) = Null)
              /\ memFile' = IF LoadJson(memFile) = Null \/ repaired # memory_json
                            THEN repaired ELSE memFile
              /\ dirs' = repair_mkdirs(memory_json, Root, made)
              /\ obs' = [obs EXCEPT !.startId = repaired.f["current_run_id"],
                                    !.startRuns = repaired.f["exploration"].f["runs_completed"],
                                    !.rawMem = memory_json,
                                    !.startTask = taskFile]
    /\ pc' = "normalize_task"
    /\ UNCHANGED <<runNo, prevMemFile, taskFile, prevTaskFile, files, task,
                   role_assignments, agent_calls, agent_results, rep, scan>>

\* state.py: normalize_task; the operator is asked when this is the first
\* run, when task.json cannot be loaded or when a stored field is unusable
normalize_task(Answers) ==
    /\ pc = "normalize_task"
    /\ \E answers \in Answers,
          parsed \in {IF LoadJson(taskFile) = Null THEN Null
                      ELSE parse_task(AsDict(memory), LoadJson(taskFile))} :
          \E new_task \in {IF \/ first_run
                               \/ parsed = Null
                               \/ \E k \in DOMAIN parsed.f : parsed.f[k] = Null
                            THEN collect_task_values(answers) ELSE parsed} :
              /\ task' = new_task
              /\ taskFile' = new_task
    /\ dirs' = dirs \cup Ancestors(Root \o <<"task">>)
    /\ pc' = "load_prompts"
    /\ UNCHANGED <<runNo, memFile, prevMemFile, prevTaskFile, files, memory, first_run,
                   role_assignments, agent_calls, agent_results, obs, rep, scan>>

\* prompts.py: load_prompts; the prompt texts play no part in the model
load_prompts ==
    /\ pc = "load_prompts"
    /\ dirs' = dirs \cup Ancestors(Root \o <<"prompts">>)
    /\ pc' = "select_role_assignments"
    /\ UNCHANGED <<runNo, memFile, prevMemFile, taskFile, prevTaskFile, files, memory, task,
                   first_run, role_assignments, agent_calls, agent_results, obs, rep, scan>>

\* select.py / inputs.py: AGENTS
AGENTS == <<"architect", "implementer">>

\* "ucb = stats.get('ucb'); if not isinstance(ucb, (int, float)): ucb = 0.0"
CellUcb(stats) ==
    IF ~IsNumber(DictGet(stats, "ucb")) THEN Zero ELSE Float(DictGet(stats, "ucb"))

\* the last index that holds the maximum
argmax_Last(l) ==
    CHOOSE i \in 1..Len(l) :
        /\ \A j \in 1..Len(l) : RLe(l[j], l[i])
        /\ \A j \in (i + 1)..Len(l) : RLt(l[j], l[i])

\* int(np.argmax(l)): the first index that holds the maximum
argmax(l) ==
    CHOOSE i \in 1..Len(l) :
        /\ \A j \in 1..Len(l) : RLe(l[j], l[i])
        /\ \A j \in 1..(i - 1) : RLt(l[j], l[i])

\* select.py: the model of highest ucb for each role, iterate phase only
ucb_list(model_stats, models) ==
    [i \in 1..Len(models) |-> CellUcb(model_stats.f[models[i]])]

best_of(model_stats, models) == Tok(models[argmax(ucb_list(model_stats, models))])

best_by_role(mem) ==
    LET role_model_stats == AsDict(Get(mem, "role_model_stats"))
    IN Obj([role \in {r \in {AGENTS[i] : i \in 1..Len(AGENTS)} \cap DOMAIN role_model_stats.f :
                         DOMAIN role_model_stats.f[r].f # {}} |->
               best_of(role_model_stats.f[role], SortedKeys(role_model_stats.f[role]))])

select_role_assignments ==
    /\ pc = "select_role_assignments"
    /\ role_assignments' = IF PhaseOf(task) = "bootstrap" THEN Obj(EmptyDict)
                           ELSE best_by_role(AsDict(memory))
    /\ pc' = "build_agent_inputs"
    /\ UNCHANGED <<runNo, memFile, prevMemFile, taskFile, prevTaskFile, dirs, files, memory,
                   task, first_run, agent_calls, agent_results, obs, rep, scan>>

(***************************************************************************)
(* Agent calls (orchestration/inputs.py).                                  *)
(***************************************************************************)
\* inputs.py: normalize_weights for the two active agents
active_weight(weighted_inputs, role) ==
    IF ~IsNumber(Get(weighted_inputs, role)) \/ RLt(NumOf(Get(weighted_inputs, role)), Zero)
    THEN Fl(Half)
    ELSE Float(Get(weighted_inputs, role))

normalize_weights(weighted_inputs) ==
    sum_weights(active_weight(weighted_inputs, AGENTS[1]),
                active_weight(weighted_inputs, AGENTS[2])).f

\* f"{role}_{model_id}"
CallId(role, model_id) == <<role, "_", model_id>>

AgentCall(role, model_id, weights, chairman_summary) ==
    [call_id |-> CallId(role, model_id), agent_id |-> role, model_id |-> model_id,
     agent_weight |-> weights[role].q, chairman_summary |-> AsDict(chairman_summary)]

\* inputs.py: build_agent_calls
build_agent_calls(model_ids, weights, phase, chairman_summary_store, assignments) ==
    LET n == Len(model_ids)
        model_summary == AsDict(Get(chairman_summary_store, phase))
        assigned(role) ==
            LET model_id == Get(assignments, role)
            IN IF IsStr(model_id) /\ \E i \in 1..n : model_id.s = <<model_ids[i]>>
               THEN model_id.s[1] ELSE model_ids[1]
    IN IF phase = "bootstrap"
       THEN [i \in 1..(Len(AGENTS) * n) |->
                AgentCall(AGENTS[((i - 1) \div n) + 1], model_ids[((i - 1) % n) + 1], weights,
                          Get(model_summary, model_ids[((i - 1) % n) + 1]))]
       ELSE [i \in 1..Len(AGENTS) |->
                AgentCall(AGENTS[i], assigned(AGENTS[i]), weights, model_summary)]

build_agent_inputs ==
    /\ pc = "build_agent_inputs"
    /\ LET mem == AsDict(memory)
           model_pool == IF IsDict(Get(mem, "model_pool")) THEN Get(mem, "model_pool")
                         ELSE Obj(model_defaults)
           keys == SortedKeys(model_pool)
           model_ids == IF Len(keys) = 0 THEN <<"M1">> ELSE keys
       IN agent_calls' = build_agent_calls(model_ids,
                                           normalize_weights(AsDict(Get(mem, "weighted_inputs"))),
                                           PhaseOf(task),
                                           AsDict(Get(mem, "chairman_summary_store")),
                                           AsDict(role_assignments))
    /\ pc' = "run_agents"
    /\ UNCHANGED <<runNo, memFile, prevMemFile, taskFile, prevTaskFile, dirs, files, memory,
                   task, first_run, role_assignments, agent_results, obs, rep, scan>>

(***************************************************************************)
(* Path confinement (utils/utils.py).                                      *)
(***************************************************************************)
\* os.path.commonpath of two absolute, normalised paths
RECURSIVE CommonPath(_, _)
CommonPath(a, b) ==
    IF a = <<>> \/ b = <<>> \/ Head(a) # Head(b) THEN <<>>
    ELSE <<Head(a)>> \o CommonPath(Tail(a), Tail(b))

\* the test is made against the parent of the base directory
is_within_base_Parent(file_path, base_dir) ==
    CommonPath(file_path, SubSeq(base_dir, 1, Len(base_dir) - 1))
        = SubSeq(base_dir, 1, Len(base_dir) - 1)

\* is_within_base(file_path, base_dir) on resolved paths
is_within_base(file_path, base_dir) == CommonPath(file_path, base_dir) = base_dir

\* path.exists() and path.is_file()
IsFile(path, fls) == path \in DOMAIN fls

(***************************************************************************)
(* Running the agents (orchestration/runner.py).                           *)
(***************************************************************************)
ROLE_ORDER == [architect |-> 0, implementer |-> 1]

\* implementers are ordered before architects
CallKeyLess_ImplementerFirst(a, b) ==
    \/ ROLE_ORDER[a.agent_id] > ROLE_ORDER[b.agent_id]
    \/ /\ a.agent_id = b.agent_id
       /\ \/ StrLess(<<a.model_id>>, <<b.model_id>>)
          \/ a.model_id = b.model_id /\ StrLess(a.call_id, b.call_id)

\* the order of the sort key (ROLE_ORDER[agent_id], model_id, call_id)
CallKeyLess(a, b) ==
    \/ ROLE_ORDER[a.agent_id] < ROLE_ORDER[b.agent_id]
    \/ /\ a.agent_id = b.agent_id
       /\ \/ StrLess(<<a.model_id>>, <<b.model_id>>)
          \/ a.model_id = b.model_id /\ StrLess(a.call_id, b.call_id)

\* the place of x in a sorted list: after every element that is not greater
RECURSIVE InsertCall(_, _)
InsertCall(sorted, x) ==
    IF sorted = <<>> THEN <<x>>
    ELSE IF CallKeyLess(x, Head(sorted)) THEN <<x>> \o sorted
    ELSE <<Head(sorted)>> \o InsertCall(Tail(sorted), x)

\* list.sort(key=...): a stable sort
RECURSIVE SortCalls(_)
SortCalls(calls) ==
    IF calls = <<>> THEN <<>>
    ELSE InsertCall(SortCalls(SubSeq(calls, 1, Len(calls) - 1)), calls[Len(calls)])

validate_call_id_contract(calls) ==
    \A i \in 1..Len(calls) : calls[i].call_id = CallId(calls[i].agent_id, calls[i].model_id)

\* the call id under which the architect of a model has stored its result
ArchitectLayerId(calls, architect_model) ==
    IF validate_call_id_contract(calls) THEN Str(CallId("architect", architect_model))
    ELSE LET hits == {i \in 1..Len(calls) : /\ calls[i].agent_id = "architect"
                                              /\ calls[i].model_id = architect_model}
         IN IF hits = {} THEN Null
            ELSE Str(calls[CHOOSE i \in hits : \A j \in hits : j <= i].call_id)

\* the design moves kept by parse_architect_output: the mappings, each with
\* its non-empty proposal_id, path and function stripped
parse_architect_output(model_output) ==
    IF ~IsDict(model_output) THEN Obj([design_moves |-> List(<<>>)])
    ELSE LET design_moves == Get(model_output, "design_moves")
             kept == IF IsList(design_moves)
                     THEN SelectSeq(design_moves.l, LAMBDA move : IsDict(move)) ELSE <<>>
             keep(move) ==
                 Obj([k \in {k \in DOMAIN move.f \cap {"proposal_id", "path", "function"} :
                               IsStr(move.f[k]) /\ Strip(move.f[k].s) # <<>>} |->
                         Str(Strip(move.f[k].s))])
         IN Obj([design_moves |-> List([i \in 1..Len(kept) |-> keep(kept[i])])])

\* the modules kept by parse_implementer_output
parse_implementer_output(model_output) ==
    IF ~IsDict(model_output) THEN Obj([modules_added_and_updated |-> List(<<>>)])
    ELSE LET modules == Get(model_output, "modules_added_and_updated")
             kept == IF IsList(modules)
                     THEN SelectSeq(modules.l, LAMBDA module : IsDict(module)) ELSE <<>>
             keep(module) ==
                 Obj([k \in {k \in DOMAIN module.f \cap {"path", "content"} :
                               IsStr(module.f[k]) /\ Strip(module.f[k].s) # <<>>} |->
                         Str(Strip(module.f[k].s))])
         IN Obj([modules_added_and_updated |-> List([i \in 1..Len(kept) |-> keep(kept[i])])])

\* the edit of a design move is appended to the patch of its module
AddEdit(patches, module_path, edit) ==
    [i \in 1..Len(patches) |->
        IF patches[i].f["module_path"] = module_path
        THEN SetKey(patches[i], "edits", List(Append(patches[i].f["edits"].l, edit)))
        ELSE patches[i]]

\* upload_relevant_code: the design moves of the architect that lie within
\* the model directory, grouped by module, with the text of existing modules
RECURSIVE UploadMoves(_, _, _, _, _)
UploadMoves(moves, model_directory, fls, new_modules, module_patches) ==
    IF moves = <<>>
    THEN Obj([new_modules |-> List(new_modules), module_patches |-> List(module_patches)])
    ELSE LET move == Head(moves)
             path == IF IsDict(move) /\ IsStr(Get(move, "path"))
                     THEN Strip(Get(move, "path").s) ELSE <<>>
             function == IF IsDict(move) /\ IsStr(Get(move, "function"))
                         THEN Strip(Get(move, "function").s) ELSE <<>>
             resolved == Resolve(path)
             module_path == Str(PathStr(resolved))
             edit == Obj([proposal_id |-> StripOr(Get(move, "proposal_id"), <<>>),
                          function |-> Str(function)])
             known(patches) == \E i \in 1..Len(patches) : patches[i].f["module_path"] = module_path
         IN IF path = <<>> \/ ~is_within_base(resolved, model_directory) \/ function = <<>>
            THEN UploadMoves(Tail(moves), model_directory, fls, new_modules, module_patches)
            ELSE IF IsFile(resolved, fls)
            THEN UploadMoves(Tail(moves), model_directory, fls, new_modules,
                     IF known(module_patches) THEN AddEdit(module_patches, module_path, edit)
                     ELSE Append(module_patches,
                                 Obj([module_path |-> module_path, edits |-> List(<<edit>>),
                                      module_content |-> Str(fls[resolved])])))
            ELSE UploadMoves(Tail(moves), model_directory, fls,
                     IF known(new_modules) THEN AddEdit(new_modules, module_path, edit)
                     ELSE Append(new_modules,
                                 Obj([module_path |-> module_path, edits |-> List(<<edit>>)])),
                     module_patches)

upload_relevant_code(architect_output, model_directory, fls) ==
    IF ~IsDict(architect_output) \/ ~IsList(Get(architect_output, "design_moves"))
    THEN Obj(EmptyDict)
    ELSE UploadMoves(Get(architect_output, "design_moves").l, model_directory, fls, <<>>, <<>>)

\* the base directory of the run: directory_structure.base_path, or
\* <root>/code when it is not a str
BasePath(mem) ==
    LET base_path == DictGet(DictGet(mem, "directory_structure"), "base_path")
    IN IF IsStr(base_path) THEN Resolve(Strip(base_path.s)) ELSE Root \o <<"code">>

\* the directory the calls of a model work in: <base>/<model_id> in bootstrap,
\* <base>/<final_model> in iterate
ModelDirectory(mem, phase, model_id) ==
    BasePath(mem) \o (IF phase = "bootstrap" THEN <<model_id>>
                      ELSE IF IsStr(DictGet(mem, "final_model"))
                      THEN Strip(DictGet(mem, "final_model").s) ELSE <<"M1">>)

\* what a provider's client does with a call: it returns a text (here
\* already loaded: a JSON value, Null when the text holds none), it raises,
\* or it reports an error of the service
Raises(error) == [t |-> "raises", error |-> error]

Reports(error) == [t |-> "reports", error |-> error]

\* run_provider with the error left unset
run_provider_NoError(provider, reply) ==
    [output |-> IF IsStr(provider) /\ provider.s \in PROVIDERS
                   /\ reply.t \notin {"raises", "reports"}
                THEN reply ELSE Null,
     error |-> Null]

\* run_provider: the loaded output and the error of a call.  Without a str
\* provider, with a provider that is not known, when the client raises or
\* reports an error, the output is "" (which load_output turns into None)
\* and the error is a str.
run_provider(provider, reply) ==
    IF ~IsStr(provider) THEN [output |-> Null, error |-> Str(<<"invalid provider">>)]
    ELSE IF provider.s \notin PROVIDERS
    THEN [output |-> Null, error |-> Str(<<"unknown provider">>)]
    ELSE IF reply.t \in {"raises", "reports"} THEN [output |-> Null, error |-> Str(reply.error)]
    ELSE [output |-> reply, error |-> Null]

\* state.get("run_id") in a stage: DERState has no such key and no stage
\* returns one, so the key is never in the state
state_run_id == Null

\* "run_id = state.get('run_id'); run_id = run_id.strip() if isinstance(run_id, str)
\* else 'run_000001'" in run_agents
agents_run_id == IF IsStr(state_run_id) THEN Strip(state_run_id.s) ELSE RunOne

\* run_agents before its loop: the calls are sorted, nothing has a result
run_agents ==
    /\ pc = "run_agents"
    /\ agent_calls' = SortCalls(agent_calls)
    /\ agent_results' = EmptyDict
    /\ dirs' = dirs \cup Ancestors(BasePath(memory))
    /\ pc' = IF agent_calls = <<>> THEN "chairman_merge" ELSE "run_call"
    /\ UNCHANGED <<runNo, memFile, prevMemFile, taskFile, prevTaskFile, files, memory, task,
                   first_run, role_assignments, obs, rep, scan>>

\* one pass of the loop of run_agents: the prompt of the next call is
\* built, the provider answers, the parsed answer is stored under call_id;
\* metadata.run_id of the payload is agents_run_id
run_call(Designs, Modules) ==
    /\ pc = "run_call"
    /\ Len(obs.callLog) < Len(agent_calls)
    /\ LET call == agent_calls[Len(obs.callLog) + 1]
           phase == PhaseOf(task)
           model_directory == ModelDirectory(memory, phase, call.model_id)
           assigned == DictGet(role_assignments, "architect")
           architect_model == IF phase = "iterate"
                              THEN (IF IsStr(assigned) /\ Strip(assigned.s) # <<>>
                                    THEN Strip(assigned.s)[1] ELSE "")
                              ELSE call.model_id
           architect_layer_id == ArchitectLayerId(agent_calls, architect_model)
           stored == IF architect_layer_id # Null /\ architect_layer_id.s \in DOMAIN agent_results
                     THEN agent_results[architect_layer_id.s] ELSE Obj(EmptyDict)
           architect_output == AsDict(DictGet(stored, "output"))
           current_code == upload_relevant_code(architect_output, model_directory, files)
       IN \E reply \in (IF call.agent_id = "architect" THEN Designs[call.model_id]
                        ELSE Modules[call.model_id]) :
          \E provider_output \in
                 {run_provider(Get(AsDict(Get(AsDict(Get(AsDict(memory), "model_pool")),
                                              call.model_id)), "provider"), reply)} :
             LET parsed_output ==
                     IF provider_output.output = Null THEN Obj(EmptyDict)
                     ELSE IF call.agent_id = "architect"
                     THEN parse_architect_output(provider_output.output)
                     ELSE parse_implementer_output(provider_output.output)
             IN /\ agent_results' = (call.call_id :> Obj([output |-> parsed_output,
                                                          error |-> provider_output.error]))
                                       @@ agent_results
                /\ obs' = [obs EXCEPT !.callLog =
                              Append(@, [call_id |-> call.call_id, agent_id |-> call.agent_id,
                                         model_id |-> call.model_id,
                                         architect_layer_id |->
                                             IF call.agent_id = "implementer"
                                             THEN architect_layer_id ELSE Null,
                                         existing_module_code |->
                                             IF call.agent_id = "implementer"
                                                /\ architect_layer_id # Null
                                             THEN current_code ELSE Null,
                                         output |-> parsed_output,
                                         reply |-> reply,
                                         run_id |-> agents_run_id])]
                /\ dirs' = dirs \cup Ancestors(model_directory)
    /\ pc' = IF Len(obs.callLog) + 1 = Len(agent_calls) THEN "chairman_merge" ELSE "run_call"
    /\ UNCHANGED <<runNo, memFile, prevMemFile, taskFile, prevTaskFile, files, memory, task,
                   first_run, role_assignments, agent_calls, rep, scan>>

(***************************************************************************)
(* The chairman (orchestration/chairman.py).                               *)
(***************************************************************************)
\* math.sqrt(math.log(max(total_runs, 2)) / max(n_new, 1)) in units of
\* 1/1024, row total_runs, column n_new
SqrtLogTable ==
    <<<<853, 603, 492, 426, 381, 348, 322, 301>>,
      <<853, 603, 492, 426, 381, 348, 322, 301>>,
      <<1073, 759, 620, 537, 480, 438, 406, 379>>,
      <<1206, 853, 696, 603, 539, 492, 456, 426>>,
      <<1299, 919, 750, 650, 581, 530, 491, 459>>,
      <<1371, 969, 791, 685, 613, 560, 518, 485>>,
      <<1428, 1010, 825, 714, 639, 583, 540, 505>>,
      <<1477, 1044, 853, 738, 660, 603, 558, 522>>,
      <<1518, 1073, 876, 759, 679, 620, 574, 537>>,
      <<1554, 1099, 897, 777, 695, 634, 587, 549>>,
      <<1586, 1121, 915, 793, 709, 647, 599, 561>>,
      <<1614, 1141, 932, 807, 722, 659, 610, 571>>,
      <<1640, 1160, 947, 820, 733, 670, 620, 580>>,
      <<1664, 1176, 960, 832, 744, 679, 629, 588>>,
      <<1685, 1192, 973, 843, 754, 688, 637, 596>>,
      <<1705, 1206, 984, 853, 763, 696, 644, 603>>>>

SqrtLog(total_runs, n_new) ==
    Fl(Rat(SqrtLogTable[IF total_runs < 1 THEN 1 ELSE total_runs][IF n_new < 1 THEN 1 ELSE n_new],
           1024))

\* "x = d.get(k, default); if not a number in [0, 1]: x = default; float(x)"
UnitOr(v, default) == FloatInRangeOr(v, Zero, One, Fl(default))

\* "n = model_stats.get('n', 0); if not a number: n = 0; int(n)"
CountOf(model_stats) ==
    IF ~IsNumber(Get(model_stats, "n")) THEN 0 ELSE PyInt(NumOf(Get(model_stats, "n")))

\* mean + (score - mean) / count
running_mean(mean, score, count) == FAdd(mean, FDiv(FSub(score, mean), Int2Rat(count)))

\* mean_reward_new - cost_penalty * mean_cost_new + ucb_c * sqrt(...)
ucb_value(mean_reward_new, mean_cost_new, cost_penalty, ucb_c, total_runs, n_new) ==
    FAdd(FSub(mean_reward_new, FMul(cost_penalty, mean_cost_new)),
         FMul(ucb_c, SqrtLog(total_runs, n_new)))

updated_stats(model_stats, total_runs, routing_policy, n_new, mean_reward_new, mean_cost_new) ==
    Obj([n |-> Num(Int2Rat(n_new)),
         mean_reward |-> Num(mean_reward_new),
         mean_cost |-> Num(mean_cost_new),
         last_used_run_id |-> Get(model_stats, "last_used_run_id"),
         ucb |-> Num(ucb_value(mean_reward_new, mean_cost_new,
                               UnitOr(Get(routing_policy, "cost_penalty"), <<2, 5>>),
                               UnitOr(Get(routing_policy, "ucb_c"), Half), total_runs, n_new))])

\* the running means are divided by the old count
calculate_stats_OldCount(model_stats, total_runs, routing_policy, scoring) ==
    updated_stats(model_stats, total_runs, routing_policy, CountOf(model_stats) + 1,
                  running_mean(UnitOr(Get(model_stats, "mean_reward"), Zero),
                               UnitOr(Get(scoring, "judge_score"), Zero),
                               IF CountOf(model_stats) = 0 THEN 1 ELSE CountOf(model_stats)),
                  running_mean(UnitOr(Get(model_stats, "mean_cost"), Zero),
                               UnitOr(Get(scoring, "cost_score"), Half),
                               IF CountOf(model_stats) = 0 THEN 1 ELSE CountOf(model_stats)))

\* calculate_stats: the incremental means and the ucb of a cell
calculate_stats(model_stats, total_runs, routing_policy, scoring) ==
    updated_stats(model_stats, total_runs, routing_policy, CountOf(model_stats) + 1,
                  running_mean(UnitOr(Get(model_stats, "mean_reward"), Zero),
                               UnitOr(Get(scoring, "judge_score"), Zero),
                               CountOf(model_stats) + 1),
                  running_mean(UnitOr(Get(model_stats, "mean_cost"), Zero),
                               UnitOr(Get(scoring, "cost_score"), Half),
                               CountOf(model_stats) + 1))

\* "value.strip() if isinstance(value, str) else ''" on the keys of an edit
\* that parse_chairman_output keeps
parse_edit(edit) ==
    Obj([k \in DOMAIN edit.f \cap {"proposal_ids", "path", "content"} |->
            IF k = "proposal_ids"
            THEN (IF IsList(edit.f[k])
                  THEN List(SelectSeq(edit.f[k].l, LAMBDA x : IsStr(x))) ELSE List(<<>>))
            ELSE StripOr(edit.f[k], <<>>)])

\* "x = d.get(k); if not a number in [0, 1]: x = default" (the value is kept
\* as it was given)
ScoreOr(v, default) == IF NotInRange(v, Zero, One) THEN Num(default) ELSE v

parse_chairman_output(chairman_output) ==
    LET approved_edits == Get(chairman_output, "approved_edits")
        edits == IF IsList(approved_edits)
                 THEN SelectSeq(approved_edits.l, LAMBDA e : IsDict(e)) ELSE <<>>
        chairman_summary == AsDict(Get(chairman_output, "chairman_summary"))
        added_design_moves == Get(chairman_summary, "added_design_moves")
        added == IF IsList(added_design_moves)
                 THEN SelectSeq(added_design_moves.l, LAMBDA m : IsDict(m)) ELSE <<>>
        scoring == AsDict(Get(chairman_output, "scoring"))
        role_scores(role) ==
            LET given == AsDict(Get(scoring, role))
            IN Obj([judge_score |-> ScoreOr(Get(given, "judge_score"), Zero),
                    cost_score |-> ScoreOr(Get(given, "cost_score"), Half)])
    IN Obj([approved_edits |-> List([i \in 1..Len(edits) |-> parse_edit(edits[i])]),
            chairman_summary |->
                Obj([added_design_moves |->
                        List([i \in 1..Len(added) |->
                                 Obj([proposal_id |-> StripOr(Get(added[i], "proposal_id"), <<>>),
                                      goal |-> StripOr(Get(added[i], "goal"), <<>>)])])]),
            scoring |-> Obj([architect |-> role_scores("architect"),
                             implementer |-> role_scores("implementer")])])

\* sum(int(cell["n"]) for the cells of a role whose n is a number)
RECURSIVE SumN(_, _)
SumN(role_models, keys) ==
    IF keys = {} THEN 0
    ELSE LET k == CHOOSE x \in keys : TRUE
             n == DictGet(role_models.f[k], "n")
         IN (IF IsDict(role_models.f[k]) /\ IsNumber(n) THEN PyInt(NumOf(n)) ELSE 0)
               + SumN(role_models, keys \ {k})

\* the update applied to every cell of the role
update_cell_WholeRole(role_model_stats, role, model_id, run_id, routing_policy, chairman_scoring) ==
    SetKey(role_model_stats, role,
           Obj([m \in DOMAIN AsDict(Get(role_model_stats, role)).f |->
                   calculate_stats(SetKey(AsDict(Get(role_model_stats, role).f[m]),
                                          "last_used_run_id", Str(run_id)),
                                   SumN(AsDict(Get(role_model_stats, role)),
                                        DOMAIN AsDict(Get(role_model_stats, role)).f) + 1,
                                   routing_policy, AsDict(Get(chairman_scoring, role)))]))

\* the update of the cell (role, model_id) from the chairman's scoring
update_cell(role_model_stats, role, model_id, run_id, routing_policy, chairman_scoring) ==
    LET role_models == AsDict(Get(role_model_stats, role))
        role_model == SetKey(AsDict(Get(role_models, model_id)), "last_used_run_id", Str(run_id))
        total_runs == SumN(role_models, DOMAIN role_models.f) + 1
    IN SetKey(role_model_stats, role,
              SetKey(role_models, model_id,
                     calculate_stats(role_model, total_runs, routing_policy,
                                     AsDict(Get(chairman_scoring, role)))))

\* the part of the memory one chairman call rewrites: both cells of
\* model_ids (one per role), the summary and the approved edits
merge_parsed(mem, phase, cell_models, bucket, parsed, run_id) ==
    LET routing_policy == AsDict(Get(mem, "routing_policy"))
        stats1 == update_cell(AsDict(Get(mem, "role_model_stats")), ROLES[1], cell_models[1],
                              run_id, routing_policy, Get(parsed, "scoring"))
        stats2 == update_cell(stats1, ROLES[2], cell_models[2], run_id, routing_policy,
                              Get(parsed, "scoring"))
        summaries == Get(mem, "chairman_summary_store")
        edits == Get(mem, "chairman_edits")
        approved == Obj([approved_edits |-> Get(parsed, "approved_edits")])
    IN Obj([k \in DOMAIN mem.f |->
               CASE k = "role_model_stats" -> stats2
                 [] k = "chairman_summary_store" ->
                        IF phase = "bootstrap"
                        THEN SetKey(summaries, phase,
                                    SetKey(Get(summaries, phase), bucket,
                                           Get(parsed, "chairman_summary")))
                        ELSE SetKey(summaries, phase, Get(parsed, "chairman_summary"))
                 [] k = "chairman_edits" ->
                        IF phase = "bootstrap"
                        THEN SetKey(edits, phase, SetKey(Get(edits, phase), bucket, approved))
                        ELSE SetKey(edits, phase, approved)
                 [] OTHER -> mem.f[k]])

\* a reply without an object leaves the memory as it is
merge_output_KeepWithoutReply(mem, phase, cell_models, bucket, loaded_chairman_output) ==
    IF loaded_chairman_output = Null THEN mem
    ELSE merge_parsed(mem, phase, cell_models, bucket,
                      parse_chairman_output(AsDict(loaded_chairman_output)),
                      StripOr(Get(mem, "current_run_id"), <<>>).s)

merge_output(mem, phase, cell_models, bucket, loaded_chairman_output) ==
    merge_parsed(mem, phase, cell_models, bucket,
                 parse_chairman_output(AsDict(loaded_chairman_output)),
                 StripOr(Get(mem, "current_run_id"), <<>>).s)

\* the buckets chairman_merge rebuilds before it calls the chairman
merge_buckets(mem) ==
    LET model_ids == SortedKeys(AsDict(Get(mem, "model_pool")))
    IN Obj([k \in DOMAIN mem.f \cup {"chairman_summary_store", "chairman_edits",
                                     "role_model_stats"} |->
               CASE k = "chairman_summary_store" ->
                        repair_buckets(Get(mem, "chairman_summary_store"), model_ids)
                 [] k = "chairman_edits" -> repair_buckets(Get(mem, "chairman_edits"), model_ids)
                 [] k = "role_model_stats" -> AsDict(Get(mem, "role_model_stats"))
                 [] OTHER -> mem.f[k]])

\* the bootstrap loop stopped after the first model
merge_bootstrap_FirstOnly(mem, model_ids, outputs) ==
    IF model_ids = <<>> THEN mem
    ELSE merge_output(mem, "bootstrap", <<Head(model_ids), Head(model_ids)>>,
                      Head(model_ids), outputs[Head(model_ids)])

\* the bootstrap loop: one chairman call per model, in the order of the ids
RECURSIVE merge_bootstrap(_, _, _)
merge_bootstrap(mem, model_ids, outputs) ==
    IF model_ids = <<>> THEN mem
    ELSE merge_bootstrap(merge_output(mem, "bootstrap", <<Head(model_ids), Head(model_ids)>>,
                                      Head(model_ids), outputs[Head(model_ids)]),
                         Tail(model_ids), outputs)

\* the model a role is assigned to in the iterate phase ("" when none)
AssignedModel(assignments, role) ==
    IF IsStr(DictGet(assignments, role)) /\ Strip(DictGet(assignments, role).s) # <<>>
    THEN Strip(DictGet(assignments, role).s)[1] ELSE ""

\* the base directory of a model: directory_structure[model_id].path, or
\* <cwd>/code/<model_id> when it is not a non-empty str
ModelBase(mem, model_id) ==
    LET base_path == DictGet(DictGet(DictGet(mem, "directory_structure"), model_id), "path")
    IN IF IsStr(base_path) /\ Strip(base_path.s) # <<>> THEN Resolve(Strip(base_path.s))
       ELSE Cwd \o <<"code", model_id>>

\* memory["final_model"] stripped, "" when it is not a str
FinalModel(mem) ==
    IF IsStr(DictGet(mem, "final_model")) /\ Strip(DictGet(mem, "final_model").s) # <<>>
    THEN Strip(DictGet(mem, "final_model").s)[1] ELSE ""

\* what Path.read_text raises on a directory
IsADirectoryError == [raised |-> "IsADirectoryError"]

\* the loop of generate_module_comparison: a module whose path is within
\* the base and exists is read, whatever it is, outside any try
RECURSIVE compare_modules(_, _, _, _, _)
compare_modules(modules, base_path, ds, fls, modules_list) ==
    IF modules = <<>> THEN Obj([proposed_updates |-> List(modules_list)])
    ELSE IF ~IsDict(Head(modules))
            \/ IF IsStr(Get(Head(modules), "path"))
               THEN Strip(Get(Head(modules), "path").s) = <<>>
                    \/ ~is_within_base(Resolve(Strip(Get(Head(modules), "path").s)), base_path)
               ELSE TRUE
    THEN compare_modules(Tail(modules), base_path, ds, fls, modules_list)
    ELSE IF Resolve(Strip(Get(Head(modules), "path").s)) \in ds THEN IsADirectoryError
    ELSE compare_modules(Tail(modules), base_path, ds, fls,
             Append(modules_list,
                    Obj([path |-> Str(PathStr(Resolve(Strip(Get(Head(modules), "path").s)))),
                         current_module_content |->
                             Str(IF IsFile(Resolve(Strip(Get(Head(modules), "path").s)), fls)
                                 THEN fls[Resolve(Strip(Get(Head(modules), "path").s))]
                                 ELSE <<>>),
                         updated_module_content |->
                             StripOr(Get(Head(modules), "content"), <<>>)])))

generate_module_comparison(output, base_path, ds, fls) ==
    IF ~IsDict(output) THEN Obj(EmptyDict)
    ELSE compare_modules(IF IsList(Get(output, "modules_added_and_updated"))
                         THEN Get(output, "modules_added_and_updated").l ELSE <<>>,
                         base_path, ds, fls, <<>>)

\* agent_results[<role>_<model_id>]["output"], {} when it is not a mapping
StoredOutput(results, role, model_id) ==
    IF CallId(role, model_id) \in DOMAIN results
    THEN AsDict(DictGet(results[CallId(role, model_id)], "output")) ELSE Obj(EmptyDict)

\* what one call of the chairman is given: the output of the architect and
\* the comparison of the modules of the implementer with the files
ChairmanPayload(bucket, mem, architect_model, implementer_model, base_model, results, ds, fls) ==
    [bucket |-> bucket,
     run_id |-> StripOr(Get(mem, "current_run_id"), <<>>).s,
     architect_output |-> StoredOutput(results, "architect", architect_model),
     module_comparison |->
         generate_module_comparison(StoredOutput(results, "implementer", implementer_model),
                                    ModelBase(mem, base_model), ds, fls)]

\* the calls of the chairman in a run: one per model in bootstrap, in the
\* order of the ids, on the outputs of that model; one in iterate, on the
\* outputs of the assigned models against the base of final_model
chairman_payloads(mem, phase, model_ids, assignments, results, ds, fls) ==
    IF phase = "bootstrap"
    THEN [i \in 1..Len(model_ids) |->
             ChairmanPayload(model_ids[i], mem, model_ids[i], model_ids[i], model_ids[i],
                             results, ds, fls)]
    ELSE <<ChairmanPayload("iterate", mem, AssignedModel(assignments, "architect"),
                           AssignedModel(assignments, "implementer"), FinalModel(mem),
                           results, ds, fls)>>

chairman_merge(Outputs) ==
    /\ pc = "chairman_merge"
    /\ UNCHANGED <<runNo, memFile, prevMemFile, taskFile, prevTaskFile, dirs, files, task,
                   first_run, role_assignments, agent_calls, agent_results, rep, scan>>
    /\ \E mem \in {merge_buckets(AsDict(memory))} :
       \E model_ids \in {SortedKeys(AsDict(Get(mem, "model_pool")))} :
       \E ids \in {{model_ids[i] : i \in 1..Len(model_ids)}} :
       \E payloads \in {chairman_payloads(mem, PhaseOf(task), model_ids, role_assignments,
                                          agent_results, dirs, files)} :
          IF \E i \in 1..Len(payloads) : payloads[i].module_comparison = IsADirectoryError
          THEN pc' = "raised" /\ UNCHANGED <<memory, obs>>
          ELSE IF PhaseOf(task) = "bootstrap"
          THEN \E outputs \in {f \in [ids -> UNION {Outputs[m] : m \in ids}] :
                                   \A m \in ids : f[m] \in Outputs[m]} :
                  /\ pc' = "update_files"
                  /\ memory' = merge_bootstrap(mem, model_ids, outputs)
                  /\ obs' = [obs EXCEPT !.statsBefore = Get(mem, "role_model_stats"),
                                        !.chairmanLog = payloads,
                                        !.scores = outputs]
          ELSE \E output \in Outputs["iterate"] :
                  /\ pc' = "update_files"
                  /\ memory' = merge_output(mem, "iterate",
                                            <<AssignedModel(role_assignments, ROLES[1]),
                                              AssignedModel(role_assignments, ROLES[2])>>,
                                            "", output)
                  /\ obs' = [obs EXCEPT !.statsBefore = Get(mem, "role_model_stats"),
                                        !.chairmanLog = payloads,
                                        !.scores = [m \in {"iterate"} |-> output]]

(***************************************************************************)
(* Applying the approved edits (orchestration/persist.py).                 *)
(***************************************************************************)
\* "x = edit.get(k); x = x.strip() if isinstance(x, str) else ''"
EditField(edit, k) == IF IsStr(Get(edit, k)) THEN Strip(Get(edit, k).s) ELSE <<>>

\* the edit is one the loops of update_files and update_directory_structure
\* go on with: a mapping with a path within the base and a content
PassesEdit(edit, base_path) ==
    /\ IsDict(edit)
    /\ EditField(edit, "path") # <<>>
    /\ is_within_base(Resolve(EditField(edit, "path")), base_path)
    /\ EditField(edit, "content") # <<>>

Parent(path) == SubSeq(path, 1, Len(path) - 1)

\* the loop over the edits of one bucket; fsys is [files, dirs, written].
\* mkdir(parents=True) fails when a component of the parent is a regular
\* file and write_text fails when the path is a directory; both failures
\* are caught and the loop goes on.
RECURSIVE apply_edits(_, _, _, _)
apply_edits(edits, base_path, bucket, fsys) ==
    IF edits = <<>> THEN fsys
    ELSE LET edit == Head(edits)
             path == Resolve(EditField(edit, "path"))
         IN IF ~PassesEdit(edit, base_path)
               \/ \E a \in Ancestors(Parent(path)) : IsFile(a, fsys.files)
            THEN apply_edits(Tail(edits), base_path, bucket, fsys)
            ELSE IF path \in fsys.dirs
            THEN apply_edits(Tail(edits), base_path, bucket,
                             [fsys EXCEPT !.dirs = @ \cup Ancestors(Parent(path))])
            ELSE apply_edits(Tail(edits), base_path, bucket,
                             [files |-> (path :> EditField(edit, "content")) @@ fsys.files,
                              dirs |-> fsys.dirs \cup Ancestors(Parent(path)),
                              written |-> fsys.written \cup {<<bucket, path>>}])

\* the approved edits of a bucket of chairman_edits
BucketEdits(bucket) ==
    IF IsList(DictGet(bucket, "approved_edits")) THEN DictGet(bucket, "approved_edits").l
    ELSE <<>>

RECURSIVE apply_bootstrap(_, _, _)
apply_bootstrap(mem, model_ids, fsys) ==
    IF model_ids = <<>> THEN fsys
    ELSE apply_bootstrap(mem, Tail(model_ids),
             apply_edits(BucketEdits(DictGet(DictGet(DictGet(mem, "chairman_edits"),
                                                     "bootstrap"), Head(model_ids))),
                         ModelBase(mem, Head(model_ids)), Head(model_ids), fsys))

update_files ==
    /\ pc = "update_files"
    /\ \E mem \in {AsDict(memory)}, fsys \in {[files |-> files, dirs |-> dirs, written |-> {}]} :
       \E done \in {IF PhaseOf(task) = "bootstrap"
                    THEN apply_bootstrap(mem, SortedKeys(AsDict(Get(mem, "model_pool"))), fsys)
                    ELSE IF FinalModel(mem) = "" THEN fsys
                    ELSE apply_edits(BucketEdits(DictGet(Get(mem, "chairman_edits"), "iterate")),
                                     ModelBase(mem, FinalModel(mem)), FinalModel(mem), fsys)} :
          /\ files' = done.files
          /\ dirs' = done.dirs
          /\ obs' = [obs EXCEPT !.written = done.written, !.preFiles = files]
    /\ pc' = "update_directory_structure"
    /\ UNCHANGED <<runNo, memFile, prevMemFile, taskFile, prevTaskFile, memory, task,
                   first_run, role_assignments, agent_calls, agent_results, rep, scan>>

(***************************************************************************)
(* The directory index (orchestration/persist.py).                         *)
(***************************************************************************)
\* the statements a module text is made of, and what ast.parse finds in
\* each; a text with a statement that does not parse yields nothing
Statements ==
    [def_f |-> [functions |-> <<Tok("f")>>, imports |-> <<>>],
     def_g |-> [functions |-> <<Tok("g")>>, imports |-> <<>>],
     import_os |-> [functions |-> <<>>, imports |-> <<Tok("import os")>>]]

RECURSIVE Extracted(_, _)
Extracted(content, kind) ==
    IF content = <<>> THEN <<>>
    ELSE LET rest == Extracted(Tail(content), kind)
             here == IF Head(content) \in DOMAIN Statements
                     THEN Statements[Head(content)][kind] ELSE <<>>
         IN here \o SelectSeq(rest, LAMBDA x : \A i \in 1..Len(here) : here[i] # x)

\* extract_functions_imports_constants, as the fields of a file record
extract_functions_imports_constants(content) ==
    IF \E i \in 1..Len(content) : content[i] \notin DOMAIN Statements /\ ~IsSpace(content[i])
    THEN [functions |-> List(<<>>), imports |-> List(<<>>), constants |-> List(<<>>)]
    ELSE [functions |-> List(Extracted(content, "functions")),
          imports |-> List(Extracted(content, "imports")), constants |-> List(<<>>)]

normalize_code_directory(code_directory, base_path) ==
    LET cd == AsDict(code_directory)
        path == Get(cd, "path")
    IN Obj([k \in DOMAIN cd.f \cup {"path", "dirs", "files"} |->
               CASE k = "path" -> IF ~IsStr(path) \/ Strip(path.s) = <<>>
                                  THEN Str(PathStr(base_path)) ELSE path
                 [] k = "dirs" -> AsDict(Get(cd, "dirs"))
                 [] k = "files" -> IF IsList(Get(cd, "files")) THEN Get(cd, "files") ELSE List(<<>>)
                 [] OTHER -> cd.f[k]])

\* safe_relpath: the components of the path below the base directory, Null
\* when the path is not within it
safe_relpath(file_path, base_dir) ==
    IF CommonPath(file_path, base_dir) # base_dir THEN Null
    ELSE List(SubSeq(file_path, Len(base_dir) + 1, Len(file_path)))

\* the module is appended to the file records, or replaces the fields of
\* the records that carry its name
ModuleOf(file) ==
    IF IsDict(file) /\ IsStr(Get(file, "module")) THEN Strip(Get(file, "module").s) ELSE <<>>

put_fields(files_list, module, fields) ==
    IF \A i \in 1..Len(files_list) : ModuleOf(files_list[i]) # <<module>>
    THEN List(Append(files_list, Obj(fields)))
    ELSE List([i \in 1..Len(files_list) |->
                  IF ModuleOf(files_list[i]) = <<module>> THEN Obj(fields @@ files_list[i].f)
                  ELSE files_list[i]])

put_module(current_files, module_path, module, content) ==
    put_fields(IF IsList(current_files) THEN current_files.l ELSE <<>>, module,
               [path |-> Str(PathStr(module_path)), module |-> Tok(module)]
                   @@ extract_functions_imports_constants(content))

\* the walk of update_code_directory down the directories of the relative
\* path: a node is created or its path is corrected, the module is put in
\* the files of the last node
RECURSIVE index_dirs(_, _, _, _, _)
index_dirs(running_code_dirs, running_path, dir_names, module, content) ==
    LET dir_ == Head(dir_names)
        here == running_path \o <<dir_>>
        old == Get(running_code_dirs, dir_)
        current_path == IF IsStr(DictGet(old, "path")) THEN Strip(DictGet(old, "path").s) ELSE <<>>
        descend(node) ==
            IF Len(dir_names) = 1
            THEN SetKey(node, "files",
                        put_module(Get(node, "files"), here \o <<module>>, module, content))
            ELSE SetKey(node, "dirs",
                        index_dirs(Get(node, "dirs"), here, Tail(dir_names), module, content))
    IN SetKey(running_code_dirs, dir_,
              descend(IF dir_ \notin DOMAIN running_code_dirs.f
                      THEN Obj([path |-> Str(PathStr(here)), dirs |-> Obj(EmptyDict),
                                files |-> List(<<>>)])
                      ELSE SetKey(IF current_path # PathStr(here)
                                  THEN SetKey(old, "path", Str(PathStr(here))) ELSE old,
                                  "dirs", AsDict(Get(old, "dirs")))))

\* the module is indexed whether or not the file exists
update_code_directory_NoFileTest(path, base_path, code_directory, content, fls) ==
    LET relative_path == safe_relpath(path, base_path)
        parts == relative_path.l
        module == parts[Len(parts)]
    IN IF relative_path = Null \/ relative_path.l = <<>> THEN code_directory
       ELSE IF Len(parts) >= 2
       THEN SetKey(code_directory, "dirs",
                   index_dirs(AsDict(Get(code_directory, "dirs")), base_path,
                              SubSeq(parts, 1, Len(parts) - 1), module, content))
       ELSE SetKey(code_directory, "files",
                   put_module(Get(code_directory, "files"), base_path \o <<module>>, module,
                              content))

\* update_code_directory: the record of an existing file within the base
update_code_directory(path, base_path, code_directory, content, fls) ==
    LET relative_path == safe_relpath(path, base_path)
        parts == relative_path.l
        module == parts[Len(parts)]
    IN IF ~IsFile(path, fls) \/ relative_path = Null \/ relative_path.l = <<>>
       THEN code_directory
       ELSE IF Len(parts) >= 2
       THEN SetKey(code_directory, "dirs",
                   index_dirs(AsDict(Get(code_directory, "dirs")), base_path,
                              SubSeq(parts, 1, Len(parts) - 1), module, content))
       ELSE SetKey(code_directory, "files",
                   put_module(Get(code_directory, "files"), base_path \o <<module>>, module,
                              content))

RECURSIVE index_edits(_, _, _, _)
index_edits(edits, base_path, code_directory, fls) ==
    IF edits = <<>> THEN code_directory
    ELSE index_edits(Tail(edits), base_path,
                     IF PassesEdit(Head(edits), base_path)
                     THEN update_code_directory(Resolve(EditField(Head(edits), "path")),
                                                base_path, code_directory,
                                                EditField(Head(edits), "content"), fls)
                     ELSE code_directory,
                     fls)

\* the index of one model after the edits of its bucket
index_model(mem, model_id, bucket, fls) ==
    LET base_path == ModelBase(mem, model_id)
        code_directory == normalize_code_directory(
                              Get(AsDict(Get(mem, "directory_structure")), model_id), base_path)
    IN normalize_code_directory(index_edits(BucketEdits(bucket), base_path, code_directory, fls),
                                base_path)

update_directory_structure ==
    /\ pc = "update_directory_structure"
    /\ \E mem \in {AsDict(memory)} :
       \E directory_structure \in {SetKey(AsDict(Get(mem, "directory_structure")), "base_path",
                                          Str(PathStr(BasePath(mem))))},
          model_ids \in {SortedKeys(AsDict(Get(mem, "model_pool")))},
          chairman_edits \in {AsDict(Get(mem, "chairman_edits"))} :
       \E staged \in {SetKey(mem, "directory_structure", directory_structure)},
          final_model \in {IF FinalModel(mem) # "" THEN FinalModel(mem)
                           ELSE IF Len(model_ids) > 0 THEN model_ids[1] ELSE ""} :
          /\ memory' =
                 SetKey(mem, "directory_structure",
                        IF PhaseOf(task) = "bootstrap"
                        THEN Obj([k \in DOMAIN directory_structure.f
                                           \cup {model_ids[i] : i \in 1..Len(model_ids)} |->
                                     IF \E i \in 1..Len(model_ids) : model_ids[i] = k
                                     THEN index_model(staged, k,
                                                      DictGet(DictGet(chairman_edits, "bootstrap"),
                                                              k),
                                                      files)
                                     ELSE directory_structure.f[k]])
                        ELSE SetKey(directory_structure, final_model,
                                    index_model(staged, final_model,
                                                Get(chairman_edits, "iterate"), files)))
          /\ obs' = [obs EXCEPT !.indexBefore = Get(mem, "directory_structure")]
    /\ dirs' = dirs \cup Ancestors(BasePath(memory))
    /\ pc' = "write_memory"
    /\ UNCHANGED <<runNo, memFile, prevMemFile, taskFile, prevTaskFile, files, task,
                   first_run, role_assignments, agent_calls, agent_results, rep, scan>>

(***************************************************************************)
(* Persisting the run (orchestration/persist.py: write_memory).            *)
(***************************************************************************)
\* one pass of the loop that picks final_model, "if ucb > best_ucb", with
\* ">=" in place of ">"
pick_LastMax(model_id, ucb, best) ==
    IF best.ucb = Null \/ RLe(best.ucb.q, ucb) THEN [model |-> model_id, ucb |-> Num(ucb)]
    ELSE best

\* one pass of the loop that picks final_model: "if ucb > best_ucb", best_ucb
\* starting at -inf (Null here)
pick(model_id, ucb, best) ==
    IF best.ucb = Null \/ RLt(best.ucb.q, ucb) THEN [model |-> model_id, ucb |-> Num(ucb)]
    ELSE best

\* the loop over the sorted ids of the architect's cells
RECURSIVE best_model(_, _, _)
best_model(architect_stats, model_ids, best) ==
    IF model_ids = <<>> THEN best.model
    ELSE best_model(architect_stats, Tail(model_ids),
                    pick(Head(model_ids), CellUcb(Get(architect_stats, Head(model_ids))), best))

\* the fields write_memory assigns before the repair
advanced_fields(mem, run_id, warmup_runs, runs_completed, chosen) ==
    Obj([k \in DOMAIN mem.f \cup {"current_run_id", "last_run_id", "exploration"} |->
            CASE k = "current_run_id" -> Str(next_run_id(run_id))
              [] k = "last_run_id" -> StripOr(run_id, RunZero)
              [] k = "exploration" ->
                     Obj([warmup_runs |-> warmup_runs, runs_completed |-> runs_completed])
              [] k = "final_model" ->
                     IF runs_completed = warmup_runs /\ chosen # "" THEN Tok(chosen)
                     ELSE mem.f[k]
              [] OTHER -> mem.f[k]])

\* the model of highest ucb among the architect's cells, "" when there is none
chosen_model(architect_stats) ==
    best_model(architect_stats, SortedKeys(architect_stats), [model |-> "", ucb |-> Null])

\* the memory of write_memory before it is repaired: the run ids, the
\* exploration counters and, at the warmup boundary, final_model
advance_memory(mem) ==
    advanced_fields(mem, Get(mem, "current_run_id"),
                    IntInRangeOr(Get(AsDict(Get(mem, "exploration")), "warmup_runs"), 0, 5, 3),
                    Num(Int2Rat(IntOr(Get(AsDict(Get(mem, "exploration")), "runs_completed"),
                                      Zero).q[1] + 1)),
                    chosen_model(AsDict(Get(AsDict(Get(mem, "role_model_stats")), "architect"))))

\* "if priority not in next_priorities: next_priorities.append(priority)"
RECURSIVE AppendNew(_, _)
AppendNew(acc, more) ==
    IF more = <<>> THEN acc
    ELSE AppendNew(IF \E i \in 1..Len(acc) : acc[i] = Head(more) THEN acc
                   ELSE Append(acc, Head(more)),
                   Tail(more))

parse_priorities(priorities) ==
    IF ~IsDict(priorities) \/ ~IsList(Get(priorities, "next_priorities")) THEN <<>>
    ELSE SelectSeq(Get(priorities, "next_priorities").l, LAMBDA x : IsStr(x))

\* chairman_overview: the priorities of the chairman's review are put before
\* the stored ones
chairman_overview(repaired_memory, loaded_chairman_output) ==
    LET store == AsDict(Get(repaired_memory, "chairman_summary_store"))
        iterate == AsDict(Get(store, "iterate"))
        current == IF IsList(Get(iterate, "next_priorities"))
                   THEN SelectSeq(Get(iterate, "next_priorities").l, LAMBDA x : IsStr(x))
                   ELSE <<>>
        next_priorities == AppendNew(IF loaded_chairman_output = Null THEN <<>>
                                     ELSE parse_priorities(loaded_chairman_output), current)
    IN SetKey(repaired_memory, "chairman_summary_store",
              SetKey(store, "iterate", SetKey(iterate, "next_priorities", List(next_priorities))))

\* the review is made in every run
overview_requried_EveryRun(runs_completed) == TRUE

\* "overview_requried = True if (runs_completed % 3 == 0 and runs_completed >= 3) else False"
overview_requried(runs_completed) == runs_completed % 3 = 0 /\ runs_completed >= 3

\* invoke_payload of chairman_overview: the call and metadata.run_id
overview_payload(repaired_memory) ==
    [agent_id |-> "chairman",
     run_id |-> StripOr(Get(repaired_memory, "current_run_id"), <<>>).s]

\* write_memory up to the point where memory.json is replaced: task.json is
\* rotated and rewritten, the memory is advanced and repaired, every third
\* run the chairman reviews the code
write_memory(Overviews) ==
    /\ pc = "write_memory"
    /\ prevTaskFile' = IF taskFile # Missing THEN taskFile ELSE prevTaskFile
    /\ taskFile' = AsDict(task)
    /\ \E advanced \in {advance_memory(AsDict(memory))},
          made \in {dirs \cup Ancestors(Root \o <<"task">>)} :
       \E repaired_memory \in {repair_memory(advanced, Root, made)} :
       \E runs_completed \in
              {PyInt(NumOf(repaired_memory.f["exploration"].f["runs_completed"]))} :
          /\ IF overview_requried(runs_completed)
             THEN \E loaded \in Overviews :
                     /\ memory' = chairman_overview(repaired_memory, loaded)
                     /\ obs' = [obs EXCEPT !.statsAtWrite = DictGet(memory, "role_model_stats"),
                                           !.preMem = memFile,
                                           !.overviewLog = <<overview_payload(repaired_memory)>>]
             ELSE /\ memory' = repaired_memory
                  /\ obs' = [obs EXCEPT !.statsAtWrite = DictGet(memory, "role_model_stats"),
                                        !.preMem = memFile]
          /\ dirs' = repair_mkdirs(advanced, Root, made) \cup Ancestors(Root \o <<"memory">>)
    /\ pc' = "replace_memory_file"
    /\ UNCHANGED <<runNo, memFile, prevMemFile, files, task, first_run, role_assignments,
                   agent_calls, agent_results, rep, scan>>

\* "if memory_json_path.exists(): memory_json_path.replace(prev_memory_path)"
replace_memory_file ==
    /\ pc = "replace_memory_file"
    /\ prevMemFile' = IF memFile # Missing THEN memFile ELSE prevMemFile
    /\ memFile' = Missing
    /\ pc' = "open_memory_file"
    /\ UNCHANGED <<runNo, taskFile, prevTaskFile, dirs, files, memory, task, first_run,
                   role_assignments, agent_calls, agent_results, obs, rep, scan>>

\* memory_json_path.open("w"): the file exists and is empty
open_memory_file ==
    /\ pc = "open_memory_file"
    /\ memFile' = Partial(0)
    /\ pc' = "dump_memory_file"
    /\ UNCHANGED <<runNo, prevMemFile, taskFile, prevTaskFile, dirs, files, memory, task,
                   first_run, role_assignments, agent_calls, agent_results, obs, rep, scan>>

\* json.dump writes the text chunk by chunk
dump_memory_file ==
    /\ pc = "dump_memory_file"
    /\ memFile' = Partial(1)
    /\ pc' = "close_memory_file"
    /\ UNCHANGED <<runNo, prevMemFile, taskFile, prevTaskFile, dirs, files, memory, task,
                   first_run, role_assignments, agent_calls, agent_results, obs, rep, scan>>

\* leaving the "with" block: the whole text is in the file, the run ends
close_memory_file ==
    /\ pc = "close_memory_file"
    /\ memFile' = memory
    /\ pc' = "end"
    /\ UNCHANGED <<runNo, prevMemFile, taskFile, prevTaskFile, dirs, files, memory, task,
                   first_run, role_assignments, agent_calls, agent_results, obs, rep, scan>>

\* run_graph.py, __main__: the program is started again with an empty state
invoke(Limit) ==
    /\ pc = "end"
    /\ runNo < Limit
    /\ runNo' = runNo + 1
    /\ pc' = "load_memory"
    /\ memory' = Null
    /\ task' = Null
    /\ first_run' = FALSE
    /\ role_assignments' = Null
    /\ agent_calls' = <<>>
    /\ agent_results' = EmptyDict
    /\ obs' = IdleObs
    /\ UNCHANGED <<memFile, prevMemFile, taskFile, prevTaskFile, dirs, files, rep, scan>>

(***************************************************************************)
(* The pipeline over several runs.                                         *)
(***************************************************************************)
UnitPath(model_id) == PathStr(<<"ws", "code", model_id, "unit.py">>)

\* what the operator answers when asked for the phase, the goal, the
\* language and the style
Answers ==
    {[phase |-> ph, goal |-> <<" ", "x">>, language |-> <<>>, style |-> <<>>] :
        ph \in {<<>>, <<" ", "ITERATE">>}}

\* what an architect's provider returns, already loaded (Null: no JSON)
Designs ==
    [m \in {"M1", "M2"} |->
        {Obj([design_moves |->
                 List(<<Obj([proposal_id |-> Tok(m), path |-> Str(UnitPath(m)),
                             function |-> Tok("f")])>>)])}
        \cup (IF m = "M2" THEN {Null} ELSE {})]

\* what an implementer's provider returns
Modules ==
    [m \in {"M1", "M2"} |->
        {Obj([modules_added_and_updated |->
                 List(<<Obj([path |-> Str(UnitPath(m)), content |-> Str(<<"def_f">>)])>>)])}]

Scoring(aj, ac, ij, ic) ==
    Obj([architect |-> Obj([judge_score |-> aj, cost_score |-> ac]),
         implementer |-> Obj([judge_score |-> ij, cost_score |-> ic])])

\* what the chairman's provider returns, already loaded, for the call that
\* judges a model (bootstrap) or the assigned pair (iterate)
VerdictHigh ==
    Obj([scoring |-> Scoring(Dec(1, 1), Dec(0, 1), Dec(1, 2), Dec(1, 2)),
         approved_edits |-> List(<<Obj([path |-> Str(UnitPath("M1")),
                                        content |-> Str(<<"def_f">>)])>>)])

VerdictLow == Obj([scoring |-> Scoring(Dec(7, 10), Dec(1, 1), Dec(1, 10), Dec(3, 10))])

Verdicts ==
    [M1 |-> {VerdictHigh}, M2 |-> {VerdictHigh, VerdictLow}, iterate |-> {VerdictLow, Null}]

\* what the chairman's provider returns when it reviews the code
Overviews == {Obj([next_priorities |-> List(<<Tok("x")>>)])}

\* memory.json as the operator may have left it before the first run
StoredMemories ==
    {Missing}
    \cup {Obj([exploration |-> Obj([warmup_runs |-> Dec(w, 1)])]) : w \in 0..5}
    \cup {Obj([current_run_id |-> v]) :
            v \in {Str(<<" ", "r", "u", "n", "_", "0", "4", "1", " ">>),
                   Str(<<"r", "u", "n", "_", "-", "3">>),
                   Str(<<"r", "u", "n", "_", "x">>),
                   Str(<<"f", "o", "o">>)}}

Init ==
    /\ pc = "load_memory"
    /\ runNo = 1
    /\ memFile \in StoredMemories
    /\ prevMemFile = Missing
    /\ taskFile = Missing
    /\ prevTaskFile = Missing
    /\ dirs = {Root}
    /\ files = EmptyDict
    /\ memory = Null
    /\ task = Null
    /\ first_run = FALSE
    /\ role_assignments = Null
    /\ agent_calls = <<>>
    /\ agent_results = EmptyDict
    /\ obs = IdleObs
    /\ rep = IdleRep
    /\ scan = IdleScan

Next ==
    \/ load_memory
    \/ normalize_task(Answers)
    \/ load_prompts
    \/ select_role_assignments
    \/ build_agent_inputs
    \/ run_agents
    \/ run_call(Designs, Modules)
    \/ chairman_merge(Verdicts)
    \/ update_files
    \/ update_directory_structure
    \/ write_memory(Overviews)
    \/ replace_memory_file
    \/ open_memory_file
    \/ dump_memory_file
    \/ close_memory_file
    \/ invoke(MaxRuns)

Spec == Init /\ [][Next]_vars

(***************************************************************************)
(* Properties of the pipeline.                                             *)
(***************************************************************************)
\* the number a run id carries: what follows "run_", read by int()
RunNumber(id) == IntOfStr(SubSeq(id, 5, Len(id)))

IsRunId(id) == StartsWith(id, RunPrefix) /\ RunNumber(id).ok

\* C1, as stated: when a run has persisted its memory, whatever
\* current_run_id the repaired memory held when the run started, the
\* persisted current_run_id parses to exactly one more than the old one and
\* the persisted last_run_id is the old current_run_id.
RunIdAlwaysIncrements ==
    pc = "end" =>
        /\ IsRunId(obs.startId.s)
        /\ IsRunId(memFile.f["current_run_id"].s)
        /\ RunNumber(memFile.f["current_run_id"].s).n = RunNumber(obs.startId.s).n + 1
        /\ memFile.f["last_run_id"] = obs.startId

\* C1, amended: when a run has persisted its memory, the persisted
\* last_run_id is the current_run_id the repaired memory held when the run
\* started; the persisted current_run_id parses to exactly one more than the
\* old one when the old one is "run_" followed by an integer literal, and is
\* "run_000001" when it is not; from the second run on the old id is always
\* of the first kind, so the number grows by one with every run.
RunIdIncrementsOrRestarts ==
    /\ pc = "end" =>
          /\ memFile.f["last_run_id"] = obs.startId
          /\ IF IsRunId(obs.startId.s)
             THEN /\ IsRunId(memFile.f["current_run_id"].s)
                  /\ RunNumber(memFile.f["current_run_id"].s).n
                        = RunNumber(obs.startId.s).n + 1
             ELSE memFile.f["current_run_id"].s = RunOne
    /\ (runNo >= 2 /\ pc # "load_memory") => IsRunId(obs.startId.s)

\* a run that started with the id "run_041" has persisted "run_000042"
RunIdIncremented ==
    /\ pc = "end"
    /\ obs.startId.s = RunPrefix \o <<"0", "4", "1">>
    /\ memFile.f["current_run_id"].s = RunPrefix \o <<"0", "0", "0", "0", "4", "2">>
    /\ memFile.f["last_run_id"].s = RunPrefix \o <<"0", "4", "1">>

\* C2: in every run whose phase normalize_task derives from the memory
\* (every run after the first), the task's phase is bootstrap exactly when
\* the number of completed runs is below the warmup_runs W that the memory
\* holds and write_memory uses, for every W in 0..5: runs 1..W are bootstrap
\* and the runs from W+1 on are iterate.
PhaseFollowsWarmup ==
    (pc = "load_prompts" /\ runNo >= 2) =>
        ((PhaseOf(task) = "bootstrap")
            <=> RLt(memory.f["exploration"].f["runs_completed"].q,
                    memory.f["exploration"].f["warmup_runs"].q))

\* C3: at every step of write_memory after the old file has been renamed
\* (before the open, between the open and the write, between the write and
\* the close), memory/memory.json is present and holds the complete memory of
\* before the run or the complete memory of after the run.
MemoryFileComplete ==
    pc \in {"open_memory_file", "dump_memory_file", "close_memory_file"} =>
        memFile \in {obs.preMem, memory}

\* the cells a chairman_merge has updated, each with the bucket of
\* the chairman call that scored it: <<role, model, bucket>>
UpdatedCells ==
    IF PhaseOf(task) = "bootstrap"
    THEN {<<ROLES[i], m, m>> : i \in 1..Len(ROLES), m \in DOMAIN obs.scores}
    ELSE {<<ROLES[i], AssignedModel(role_assignments, ROLES[i]), "iterate">> :
             i \in 1..Len(ROLES)}

\* the chairman's scores for the role of a cell, Null when it gave none
Observation(c) == DictGet(DictGet(obs.scores[c[3]], "scoring"), c[1])

\* the observation is {judge = j, cost = q} with j and q numbers in [0, 1]
InUnitInterval(c) ==
    /\ IsDict(Observation(c))
    /\ \A k \in {"judge_score", "cost_score"} :
          /\ IsNumber(Get(Observation(c), k))
          /\ InRange(NumOf(Get(Observation(c), k)), Zero, One)

CellBefore(c) == obs.statsBefore.f[c[1]].f[c[2]]

CellAfter(c) == memory.f["role_model_stats"].f[c[1]].f[c[2]]

\* r + (x - r) / (k + 1) in the floats of the program
NextMean(r, x, k) == FAdd(r, FDiv(FSub(Fl(x), r), Int2Rat(k + 1)))

\* C6: when chairman_merge has stored its update, every cell {n = k,
\* mean_reward = r, mean_cost = c} it has scored with an observation {judge =
\* j, cost = q}, j and q in [0, 1], holds n = k + 1, mean_reward = r + (j -
\* r)/(k + 1), mean_cost = c + (q - c)/(k + 1) and last_used_run_id equal to
\* the run's current_run_id, and both means lie in [0, 1].
BanditUpdate ==
    pc = "update_files" =>
        \A c \in UpdatedCells :
            InUnitInterval(c) =>
                /\ CellAfter(c).f["n"] = Num(Int2Rat(CellBefore(c).f["n"].q[1] + 1))
                /\ CellAfter(c).f["mean_reward"].q
                      = NextMean(CellBefore(c).f["mean_reward"].q,
                                 NumOf(Get(Observation(c), "judge_score")),
                                 CellBefore(c).f["n"].q[1])
                /\ CellAfter(c).f["mean_cost"].q
                      = NextMean(CellBefore(c).f["mean_cost"].q,
                                 NumOf(Get(Observation(c), "cost_score")),
                                 CellBefore(c).f["n"].q[1])
                /\ CellAfter(c).f["last_used_run_id"] = memory.f["current_run_id"]
                /\ InRange(CellAfter(c).f["mean_reward"].q, Zero, One)
                /\ InRange(CellAfter(c).f["mean_cost"].q, Zero, One)

\* a cell that had been used before has been scored again and its mean
\* reward lies strictly between 0 and 1
BanditUpdated ==
    /\ pc = "update_files"
    /\ \E c \in UpdatedCells :
          /\ InUnitInterval(c)
          /\ CellBefore(c).f["n"].q[1] >= 1
          /\ CellAfter(c).f["n"].q[1] = CellBefore(c).f["n"].q[1] + 1
          /\ RLt(Zero, CellAfter(c).f["mean_reward"].q)
          /\ RLt(CellAfter(c).f["mean_reward"].q, One)
          /\ CellAfter(c).f["mean_reward"] # CellBefore(c).f["mean_reward"]

\* the architect's cells write_memory has read, by model id
ArchitectCells == obs.statsAtWrite.f["architect"].f

\* the models whose architect cell has the highest ucb
TopArchitects ==
    {m \in DOMAIN ArchitectCells :
        \A o \in DOMAIN ArchitectCells : RLe(CellUcb(ArchitectCells[o]), CellUcb(ArchitectCells[m]))}

AtWarmupBoundary ==
    /\ pc = "end"
    /\ memFile.f["exploration"].f["runs_completed"] = memFile.f["exploration"].f["warmup_runs"]

\* C7: when the run whose incremented runs_completed equals warmup_runs has
\* persisted its memory, the persisted final_model is the model whose
\* architect cell has the highest ucb, the smallest id in str order among
\* those of equal ucb; it is determined by the architect's cells alone.
FinalModelAtBoundary ==
    AtWarmupBoundary =>
        /\ memFile.f["final_model"] \in {Tok(m) : m \in TopArchitects}
        /\ \A o \in TopArchitects : ~StrLess(<<o>>, memFile.f["final_model"].s)

\* at the boundary two architect cells had the same highest ucb and the
\* smaller id has been persisted
FinalModelTieBroken ==
    /\ AtWarmupBoundary
    /\ TopArchitects = {"M1", "M2"}
    /\ memFile.f["final_model"] = Tok("M1")

\* the architect whose output the i-th executed call depends on
ArchitectOf(i) ==
    IF PhaseOf(task) = "bootstrap" THEN obs.callLog[i].model_id
    ELSE AssignedModel(role_assignments, "architect")

\* C9: the calls are executed architects first, then by model id; every
\* implementer call is prepared after the architect call it depends on (the
\* same model's in bootstrap, the assigned architect's in iterate) has
\* stored its result, and from that result; chairman_merge starts when
\* every agent call of the run has a recorded result.
CallsInOrder ==
    /\ \A i, j \in 1..Len(obs.callLog) :
          i < j =>
              /\ obs.callLog[i].agent_id = "implementer"
                    => obs.callLog[j].agent_id = "implementer"
              /\ obs.callLog[i].agent_id = obs.callLog[j].agent_id
                    => ~StrLess(<<obs.callLog[j].model_id>>, <<obs.callLog[i].model_id>>)
    /\ pc \in {"run_call", "chairman_merge"} =>
          \A i \in 1..Len(obs.callLog) :
              obs.callLog[i].agent_id = "implementer" =>
                  \E k \in 1..(i - 1) :
                      /\ obs.callLog[k].agent_id = "architect"
                      /\ obs.callLog[k].model_id = ArchitectOf(i)
                      /\ obs.callLog[i].architect_layer_id = Str(obs.callLog[k].call_id)
                      /\ obs.callLog[i].existing_module_code
                            = upload_relevant_code(
                                  obs.callLog[k].output,
                                  ModelDirectory(memory, PhaseOf(task), obs.callLog[i].model_id),
                                  files)
    /\ pc = "chairman_merge" =>
          /\ Len(obs.callLog) = Len(agent_calls)
          /\ \A i \in 1..Len(agent_calls) : agent_calls[i].call_id \in DOMAIN agent_results

\* all four calls of a bootstrap run have been executed and the implementer
\* of M1 has been given the module its architect designed
CallsExecuted ==
    /\ pc = "chairman_merge"
    /\ Len(obs.callLog) = 4
    /\ obs.callLog[3].agent_id = "implementer"
    /\ obs.callLog[3].model_id = "M1"
    /\ obs.callLog[3].existing_module_code # Obj(EmptyDict)
    /\ obs.callLog[3].existing_module_code # Null

(***************************************************************************)
(* Repair applied twice (store.py: repair_memory).                         *)
(***************************************************************************)
\* stored values of every shape: not a mapping, and mappings whose fields
\* are missing, of the wrong type, out of range or not normalised
RawMemories ==
    {Null, Num(<<5, 1>>), Str(<<"x">>), List(<<>>), Bool(TRUE), Obj(EmptyDict)}
    \cup {Obj([current_run_id |-> v]) :
            v \in {Str(<<" ", "r", "u", "n", "_", "7", " ">>), Num(One), Str(<<>>),
                   Str(<<"f", "o", "o">>)}}
    \cup {Obj([last_run_id |-> v]) : v \in {Str(<<" ", "r", "u", "n", "_", "6">>), Null}}
    \cup {Obj([weighted_inputs |-> v]) :
            v \in {Obj([architect |-> Dec(1, 10), implementer |-> Dec(3, 10)]),
                   Obj([architect |-> Dec(1, 1), implementer |-> Dec(3, 1)]),
                   Obj([architect |-> Dec(-1, 1)]),
                   Obj([architect |-> Dec(0, 1), implementer |-> Dec(0, 1)]),
                   Obj([architect |-> Str(<<"x">>), implementer |-> Bool(TRUE)]),
                   Obj([architect |-> Dec(1, 1), implementer |-> Dec(1, 1),
                        reviewer |-> Dec(1, 1)]),
                   Str(<<"x">>)}}
    \cup {Obj([model_pool |-> v]) :
            v \in {Obj([M1 |-> Obj([cost_tier |-> Str(<<" ", "MID", " ">>),
                                    provider |-> Str(<<" ", "OpenAI", " ">>),
                                    provider_model |-> Str(<<" ", "gpt-4.1", " ">>),
                                    params |-> Obj([temperature |-> Dec(1, 1),
                                                    top_p |-> Dec(1, 2)])])]),
                   Obj([M3 |-> Obj(EmptyDict)]),
                   Obj([M1 |-> Null]),
                   Obj([M2 |-> Obj([label |-> Null, cost_tier |-> Dec(1, 1),
                                    provider |-> Tok("azure"),
                                    provider_model |-> Str(<<" ">>),
                                    params |-> Obj([temperature |-> Dec(2, 1)])])]),
                   List(<<>>)}}
    \cup {Obj([chairman_pool |-> v]) :
            v \in {Obj([C1 |-> Obj([params |-> Obj([temperature |-> Dec(2, 1)])])]),
                   Obj([C1 |-> Obj([params |-> Obj([temperature |-> Dec(3, 1)])])]),
                   Obj([M1 |-> Obj(EmptyDict)])}}
    \cup {Obj([chairman_active |-> v]) :
            v \in {Str(<<" ", "C1", " ">>), Tok("M1"), Dec(1, 1)}}
    \cup {Obj([role_model_stats |-> v]) :
            v \in {Obj([architect |->
                          Obj([M1 |-> Obj([n |-> Dec(27, 10), mean_reward |-> Dec(1, 10),
                                           mean_cost |-> Dec(2, 1),
                                           last_used_run_id |-> Str(<<" ">>),
                                           ucb |-> Str(<<"x">>)]),
                               M3 |-> Obj([n |-> Dec(1, 1)])])]),
                   Obj([architect |-> List(<<>>),
                        implementer |->
                          Obj([M2 |-> Obj([n |-> Dec(-1, 1), mean_reward |-> Bool(TRUE),
                                           last_used_run_id |-> Str(<<" ", "r", " ">>),
                                           ucb |-> Dec(-7, 10)])])])}}
    \cup {Obj([routing_policy |-> v]) :
            v \in {Obj([ucb_c |-> Dec(1, 10), cost_penalty |-> Dec(2, 1)]),
                   Obj([ucb_c |-> Bool(TRUE), cost_penalty |-> Dec(7, 10)])}}
    \cup {Obj([exploration |-> v]) :
            v \in {Obj([warmup_runs |-> Dec(27, 10), runs_completed |-> Dec(-32, 10)]),
                   Obj([warmup_runs |-> Dec(6, 1)]),
                   Obj([warmup_runs |-> Bool(TRUE), runs_completed |-> Str(<<"3">>)]),
                   Obj([warmup_runs |-> Dec(-1, 2), runs_completed |-> Dec(9, 2)])}}
    \cup {Obj([chairman_summary_store |-> v]) :
            v \in {Obj([bootstrap |-> Obj([M1 |-> Obj([next_priorities |-> Dec(1, 1)]),
                                           M3 |-> Obj(EmptyDict)]),
                        iterate |-> List(<<>>)]),
                   Str(<<"x">>)}}
    \cup {Obj([timeout_defaults |-> v]) :
            v \in {Obj([run_agents_timeout_s |-> Dec(601, 2), chairman_timeout_s |-> Dec(360, 1)]),
                   Obj([run_agents_timeout_s |-> Dec(299, 1), chairman_timeout_s |-> Dec(361, 1)])}}
    \cup {Obj([directory_structure |-> v]) :
            v \in {Obj([base_path |-> Str(<<" ", "/", "ws", "/", "code", " ">>),
                        M1 |-> Obj([path |-> Tok("x"), dirs |-> List(<<>>),
                                    files |-> Obj(EmptyDict)])]),
                   Obj([base_path |-> Str(<<"/", "etc">>)]),
                   Obj([base_path |-> Str(<<"code">>)]),
                   Obj([base_path |-> Str(<<"/", "nowhere">>)]),
                   Obj([base_path |-> Str(<<"/", "ws", "/", "code", "/", "..", "/", "alt">>)])}}
    \cup {Obj([final_model |-> v]) :
            v \in {Str(<<" ", "M2", " ">>), Tok("M3"), Dec(2, 1)}}
    \cup {Obj([chairman_edits |-> v]) :
            v \in {Obj([bootstrap |-> List(<<>>),
                        iterate |-> Obj([approved_edits |-> List(<<>>)])]),
                   Obj([bootstrap |-> Obj([M2 |-> Str(<<"x">>)]), iterate |-> Null])}}
    \cup {Obj([notes |-> Str(<<"x">>)])}

InitRepair ==
    /\ IdlePipeline
    /\ dirs = {Root, <<"etc">>}
    /\ rep \in {[step |-> 0, v |-> x, once |-> Null, twice |-> Null] : x \in RawMemories}
    /\ scan = IdleScan

\* repaired = repair_memory(v, first_run, root)
RepairOnce ==
    /\ rep.step = 0
    /\ rep' = [rep EXCEPT !.step = 1, !.once = repair_memory(rep.v, Root, dirs)]
    /\ dirs' = repair_mkdirs(rep.v, Root, dirs)
    /\ UNCHANGED <<pipelineVars, scan>>

\* repair_memory(repaired, first_run, root)
RepairTwice ==
    /\ rep.step = 1
    /\ rep' = [rep EXCEPT !.step = 2, !.twice = repair_memory(rep.once, Root, dirs)]
    /\ dirs' = repair_mkdirs(rep.once, Root, dirs)
    /\ UNCHANGED <<pipelineVars, scan>>

NextRepair == RepairOnce \/ RepairTwice

SpecRepair == InitRepair /\ [][NextRepair]_vars

\* C8: for every stored value v, repair_memory(repair_memory(v)) equals
\* repair_memory(v).
RepairIdempotent == rep.step = 2 => rep.twice = rep.once

(***************************************************************************)
(* The pipeline with approved edits inside and outside the model bases.    *)
(***************************************************************************)
FileRuns == 2

Edit(path, statement) == Obj([path |-> Str(path), content |-> Str(<<statement>>)])

Approved(edits) == Obj([approved_edits |-> List(edits)])

\* edits whose resolved path is outside <root>/code/<m>: the unit of the
\* other model, an absolute path elsewhere, two traversals by "..", a
\* directory whose name begins like the base, a relative path
Elsewhere(m, other, sibling) ==
    <<Edit(UnitPath(other), "def_g"),
      Edit(<<"/", "etc", "/", "passwd">>, "def_g"),
      Edit(PathStr(<<"ws", "code", m, "..", "x.py">>), "def_g"),
      Edit(PathStr(<<"ws", "code", m, "..", other, "y.py">>), "def_g"),
      Edit(PathStr(<<"ws", "code", sibling, "unit.py">>), "def_g"),
      Edit(<<"unit.py">>, "def_g")>>

\* edits within <root>/code/<m>: a module in a package, the base itself, a
\* relative path, and the package as if it were a file
Nested(m) ==
    <<Edit(PathStr(<<"ws", "code", m, "pkg", "mod.py">>), "def_f"),
      Edit(PathStr(<<"ws", "code", m>>), "def_f"),
      Edit(<<"code", "/", m, "/", ".", "/", "rel.py">>, "import_os"),
      Edit(PathStr(<<"ws", "code", m, "pkg">>), "def_g")>>

\* a file, then a module below it as if the file were a directory
Conflicting(m) ==
    <<Edit(PathStr(<<"ws", "code", m, "lib">>), "def_f"),
      Edit(PathStr(<<"ws", "code", m, "lib", "mod.py">>), "def_g")>>

\* what the chairman's provider returns, already loaded
FileVerdicts ==
    [M1 |-> {Approved(<<Edit(UnitPath("M1"), "def_f")>> \o Elsewhere("M1", "M2", "M1x")),
             Approved(Nested("M1")),
             Approved(Conflicting("M1"))},
     M2 |-> {SetKey(Approved(<<Edit(UnitPath("M2"), "def_f")>>), "scoring",
                    Scoring(Dec(1, 1), Dec(0, 1), Dec(1, 1), Dec(0, 1))),
             Approved(Elsewhere("M2", "M1", "M2x"))},
     iterate |-> {Approved(<<Edit(UnitPath("M1"), "import_os"),
                             Edit(UnitPath("M2"), "import_os"),
                             Edit(PathStr(<<"ws", "code", "M1", "pkg", "new.py">>), "def_g"),
                             Edit(PathStr(<<"ws", "code", "M2", "lib", "mod.py">>), "def_f")>>),
                  Null}]

InitFiles ==
    /\ pc = "load_memory"
    /\ runNo = 1
    /\ memFile \in {Missing, Obj([exploration |-> Obj([warmup_runs |-> Dec(1, 1)])])}
    /\ prevMemFile = Missing
    /\ taskFile = Missing
    /\ prevTaskFile = Missing
    /\ dirs = {Root}
    /\ files = EmptyDict
    /\ memory = Null
    /\ task = Null
    /\ first_run = FALSE
    /\ role_assignments = Null
    /\ agent_calls = <<>>
    /\ agent_results = EmptyDict
    /\ obs = IdleObs
    /\ rep = IdleRep
    /\ scan = IdleScan

NextFiles ==
    \/ load_memory
    \/ normalize_task(Answers)
    \/ load_prompts
    \/ select_role_assignments
    \/ build_agent_inputs
    \/ run_agents
    \/ run_call(Designs, Modules)
    \/ chairman_merge(FileVerdicts)
    \/ update_files
    \/ update_directory_structure
    \/ write_memory(Overviews)
    \/ replace_memory_file
    \/ open_memory_file
    \/ dump_memory_file
    \/ close_memory_file
    \/ invoke(FileRuns)

SpecFiles == InitFiles /\ [][NextFiles]_vars

\* the buckets of approved edits update_files reads in the phase of the run,
\* each with the base directory of its model
EditBuckets ==
    IF PhaseOf(task) = "bootstrap"
    THEN {[bucket |-> m,
           base |-> ModelBase(memory, m),
           edits |-> BucketEdits(DictGet(DictGet(DictGet(memory, "chairman_edits"),
                                                 "bootstrap"), m))] :
             m \in DOMAIN AsDict(DictGet(memory, "model_pool")).f}
    ELSE {[bucket |-> FinalModel(memory),
           base |-> ModelBase(memory, FinalModel(memory)),
           edits |-> BucketEdits(DictGet(DictGet(memory, "chairman_edits"), "iterate"))]}

\* the resolved path of an approved edit
EditPath(edit) == Resolve(Strip(Get(edit, "path").s))

\* the files update_files created or modified
ChangedFiles ==
    {p \in DOMAIN files : p \notin DOMAIN obs.preFiles \/ files[p] # obs.preFiles[p]}

StrictlyBelow(base, p) == IsPrefix(base, p) /\ p # base

\* C4: when update_files has run, every file it created or modified is at
\* the resolved path of an approved edit of a bucket, strictly below the base
\* directory of that bucket's model, and holds that edit's content; no file
\* has disappeared.  So an approved edit whose resolved path is outside the
\* base of its bucket has created and modified nothing.
WritesConfined ==
    pc = "update_directory_structure" =>
        /\ \A p \in DOMAIN obs.preFiles : p \in DOMAIN files
        /\ \A p \in ChangedFiles :
              \E b \in EditBuckets :
                 /\ StrictlyBelow(b.base, p)
                 /\ \E i \in 1..Len(b.edits) :
                       /\ EditPath(b.edits[i]) = p
                       /\ Strip(Get(b.edits[i], "content").s) = files[p]

\* a bucket holds an edit that was written and edits outside the base (one
\* of them to another model's unit), which left no file behind
OutsideEditSkipped ==
    /\ pc = "update_directory_structure"
    /\ \E b \in EditBuckets :
          /\ \E i \in 1..Len(b.edits) : EditPath(b.edits[i]) \in ChangedFiles
          /\ \E i \in 1..Len(b.edits) :
                /\ ~IsPrefix(b.base, EditPath(b.edits[i]))
                /\ EditPath(b.edits[i]) \notin DOMAIN files
          /\ \E i \in 1..Len(b.edits) :
                /\ ~IsPrefix(b.base, EditPath(b.edits[i]))
                /\ IsPrefix(<<"ws", "code">>, EditPath(b.edits[i]))
                /\ Len(EditPath(b.edits[i])) = 4
                /\ EditPath(b.edits[i]) \notin ChangedFiles

\* the node of a model in the directory index
IndexOf(directory_structure, m) == AsDict(DictGet(directory_structure, m))

\* the file records of a node of the index and of the nodes below it
RECURSIVE FileRecords(_)
FileRecords(node) ==
    (IF IsList(Get(node, "files"))
     THEN {Get(node, "files").l[i] : i \in 1..Len(Get(node, "files").l)} ELSE {})
    \cup UNION {FileRecords(AsDict(Get(node, "dirs").f[d])) :
                   d \in DOMAIN AsDict(Get(node, "dirs")).f}

\* the directory nodes below a node of the index, each without its own
\* subdirectories and files: the key it is stored under and its path
RECURSIVE DirNodes(_)
DirNodes(node) ==
    UNION {{<<d, Get(AsDict(Get(node, "dirs").f[d]), "path")>>}
              \cup DirNodes(AsDict(Get(node, "dirs").f[d])) :
                d \in DOMAIN AsDict(Get(node, "dirs")).f}

\* the records and nodes update_directory_structure created or updated
NewFileRecords(m) ==
    FileRecords(IndexOf(Get(memory, "directory_structure"), m))
        \ FileRecords(IndexOf(obs.indexBefore, m))

NewDirNodes(m) ==
    DirNodes(IndexOf(Get(memory, "directory_structure"), m))
        \ DirNodes(IndexOf(obs.indexBefore, m))

IndexedModels == DOMAIN AsDict(DictGet(memory, "model_pool")).f

\* C5: when update_directory_structure has run, every file record it created
\* or updated in the index of a model carries a path strictly below that
\* model's base at which update_files wrote an edit of the model's bucket in
\* this run, and every directory node it created or updated carries the path
\* of a directory, below the base, that holds such a file.  So an edit that
\* fails the confinement test, or that update_files did not write, has no
\* entry.
IndexConfined ==
    pc = "write_memory" =>
        \A m \in IndexedModels :
           /\ \A record \in NewFileRecords(m) :
                 /\ IsDict(record)
                 /\ IsStr(Get(record, "path"))
                 /\ StrictlyBelow(ModelBase(memory, m), Resolve(Get(record, "path").s))
                 /\ <<m, Resolve(Get(record, "path").s)>> \in obs.written
           /\ \A node \in NewDirNodes(m) :
                 /\ IsStr(node[2])
                 /\ StrictlyBelow(ModelBase(memory, m), Resolve(node[2].s))
                 /\ \E w \in obs.written :
                       w[1] = m /\ StrictlyBelow(Resolve(node[2].s), w[2])

\* the index of a model has a new record and a new directory node, while
\* its bucket holds an edit within the base that update_files could not
\* write and the bucket of the other model holds edits outside its base
IndexedAndSkipped ==
    /\ pc = "write_memory"
    /\ PhaseOf(task) = "bootstrap"
    /\ NewFileRecords("M1") # {}
    /\ NewDirNodes("M1") # {}
    /\ \E b \in EditBuckets :
          /\ b.bucket = "M1"
          /\ \E i \in 1..Len(b.edits) :
                /\ StrictlyBelow(b.base, EditPath(b.edits[i]))
                /\ <<"M1", EditPath(b.edits[i])>> \notin obs.written
    /\ \E b \in EditBuckets :
          /\ b.bucket = "M2"
          /\ \E i \in 1..Len(b.edits) : ~IsPrefix(b.base, EditPath(b.edits[i]))
          /\ NewFileRecords("M2") = {}

(***************************************************************************)
(* Decoding a provider text (json.loads as load_output uses it).           *)
(***************************************************************************)
\* what a decoding step yields: an error, or a value and the index after it
JsonError == [ok |-> FALSE]

JsonAt(v, i) == [ok |-> TRUE, v |-> v, i |-> i]

\* json.decoder.WHITESPACE.match(s, i).end()
RECURSIVE SkipWs(_, _)
SkipWs(s, i) == IF i <= Len(s) /\ s[i] \in {" ", "\n"} THEN SkipWs(s, i + 1) ELSE i

\* json.decoder.BACKSLASH
BACKSLASH == ("\"" :> "\"") @@ ("\\" :> "\\") @@ ("/" :> "/") @@ ("n" :> "\n")

\* py_scanstring in strict mode, from the index after the opening quote
RECURSIVE scanstring(_, _, _)
scanstring(s, i, acc) ==
    IF i > Len(s) THEN JsonError
    ELSE IF s[i] = "\"" THEN JsonAt(Str(acc), i + 1)
    ELSE IF s[i] = "\n" THEN JsonError
    ELSE IF s[i] # "\\" THEN scanstring(s, i + 1, Append(acc, s[i]))
    ELSE IF i + 1 <= Len(s) /\ s[i + 1] \in DOMAIN BACKSLASH
    THEN scanstring(s, i + 2, Append(acc, BACKSLASH[s[i + 1]]))
    ELSE JsonError

RECURSIVE DigitsEnd(_, _)
DigitsEnd(s, i) == IF i <= Len(s) /\ IsDigit(s[i]) THEN DigitsEnd(s, i + 1) ELSE i

\* NUMBER_RE on a text without sign, fraction and exponent: "0", or a
\* nonzero digit and the digits that follow it
match_number(s, i) ==
    IF s[i] = "0" THEN JsonAt(Num(Int2Rat(0)), i + 1)
    ELSE JsonAt(Num(Int2Rat(DigitsValue(SubSeq(s, i, DigitsEnd(s, i) - 1)))), DigitsEnd(s, i))

StartsAt(s, i, p) == i + Len(p) - 1 <= Len(s) /\ SubSeq(s, i, i + Len(p) - 1) = p

RECURSIVE scan_once(_, _)
RECURSIVE JSONObject(_, _)
RECURSIVE object_pair(_, _, _)
RECURSIVE object_colon(_, _, _, _)
RECURSIVE object_value(_, _, _, _)
RECURSIVE object_next(_, _, _)

\* py_make_scanner: the value that starts at index i
scan_once(s, i) ==
    IF i > Len(s) THEN JsonError
    ELSE IF s[i] = "\"" THEN scanstring(s, i + 1, <<>>)
    ELSE IF s[i] = "{" THEN JSONObject(s, i + 1)
    ELSE IF StartsAt(s, i, <<"n", "u", "l", "l">>) THEN JsonAt(Null, i + 4)
    ELSE IF StartsAt(s, i, <<"t", "r", "u", "e">>) THEN JsonAt(Bool(TRUE), i + 4)
    ELSE IF StartsAt(s, i, <<"f", "a", "l", "s", "e">>) THEN JsonAt(Bool(FALSE), i + 5)
    ELSE IF IsDigit(s[i]) THEN match_number(s, i)
    ELSE JsonError

\* JSONObject, from the index after the opening brace
JSONObject(s, i) ==
    IF SkipWs(s, i) <= Len(s) /\ s[SkipWs(s, i)] = "}"
    THEN JsonAt(Obj(EmptyDict), SkipWs(s, i) + 1)
    ELSE object_pair(s, SkipWs(s, i), EmptyDict)

\* a pair starts with its key, a string
object_pair(s, i, pairs) ==
    IF i > Len(s) \/ s[i] # "\"" THEN JsonError
    ELSE object_colon(s, scanstring(s, i + 1, <<>>), pairs, 0)

\* the key is followed by a colon and the value
object_colon(s, key, pairs, unused) ==
    IF ~key.ok THEN JsonError
    ELSE IF SkipWs(s, key.i) > Len(s) \/ s[SkipWs(s, key.i)] # ":" THEN JsonError
    ELSE object_value(s, key.v.s, scan_once(s, SkipWs(s, SkipWs(s, key.i) + 1)), pairs)

\* a later pair replaces an earlier one with the same key
object_value(s, key, value, pairs) ==
    IF ~value.ok THEN JsonError
    ELSE object_next(s, SkipWs(s, value.i), (key :> value.v) @@ pairs)

\* the pair is followed by "}" or by "," and another pair
object_next(s, i, pairs) ==
    IF i > Len(s) THEN JsonError
    ELSE IF s[i] = "}" THEN JsonAt(Obj(pairs), i + 1)
    ELSE IF s[i] = "," THEN object_pair(s, SkipWs(s, i + 1), pairs)
    ELSE JsonError

\* the whole text must be one value, whitespace around it allowed
decoded(s, value) ==
    IF value.ok /\ SkipWs(s, value.i) > Len(s) THEN [ok |-> TRUE, v |-> value.v]
    ELSE JsonError

\* json.loads(s): an error is [ok |-> FALSE]
json_loads(s) == decoded(s, scan_once(s, SkipWs(s, 1)))

(***************************************************************************)
(* load_output (utils/utils.py).                                           *)
(***************************************************************************)
\* str.splitlines() of a text whose only line break is "\n"
RECURSIVE splitlines(_, _, _)
splitlines(s, line, lines) ==
    IF s = <<>> THEN (IF line = <<>> THEN lines ELSE Append(lines, line))
    ELSE IF Head(s) = "\n" THEN splitlines(Tail(s), <<>>, Append(lines, line))
    ELSE splitlines(Tail(s), Append(line, Head(s)), lines)

\* "\n".join(lines)
RECURSIVE join(_)
join(lines) ==
    IF lines = <<>> THEN <<>>
    ELSE IF Len(lines) = 1 THEN lines[1]
    ELSE lines[1] \o <<"\n">> \o join(Tail(lines))

\* three backticks, each the token "tick"
Fence == <<"tick", "tick", "tick">>

\* the lines after the first, without the last one when it is a fence
unfenced(lines) ==
    IF lines # <<>> /\ StartsWith(Strip(lines[Len(lines)]), Fence)
    THEN SubSeq(lines, 1, Len(lines) - 1) ELSE lines

fenced(string) == Strip(join(unfenced(Tail(splitlines(string, <<>>, <<>>)))))

\* string.find("{") counted from 1, 0 when there is none
RECURSIVE find(_, _, _)
find(string, char, i) ==
    IF i > Len(string) THEN 0
    ELSE IF string[i] = char THEN i
    ELSE find(string, char, i + 1)

Return(sc, result) ==
    [step |-> "return", output |-> sc.output, object |-> sc.object, result |-> result]

\* the first attempt: the stripped text as a whole
load_output_whole ==
    /\ scan.step = "loads"
    /\ \E string \in {Strip(scan.output)} :
       \E json_object \in {json_loads(string)} :
          scan' = IF json_object.ok /\ IsDict(json_object.v) THEN Return(scan, json_object.v)
                  ELSE [step |-> "fenced", output |-> scan.output, object |-> scan.object,
                        string |-> string]
    /\ UNCHANGED <<pipelineVars, dirs, rep>>

\* the second attempt, for a text that starts with a fence, and the start of
\* the scan at the first "{"
load_output_fenced ==
    /\ scan.step = "fenced"
    /\ \E json_object \in {IF StartsWith(scan.string, Fence)
                           THEN json_loads(fenced(scan.string)) ELSE JsonError},
          start \in {find(scan.string, "{", 1)} :
          scan' = IF json_object.ok /\ IsDict(json_object.v) THEN Return(scan, json_object.v)
                  ELSE IF start = 0 THEN Return(scan, Null)
                  ELSE [step |-> "scan", output |-> scan.output, object |-> scan.object,
                        string |-> scan.string, idx |-> start, depth |-> 0,
                        in_str |-> FALSE, esc |-> FALSE, obj_start |-> 0]
    /\ UNCHANGED <<pipelineVars, dirs, rep>>

\* the candidate string[obj_start:idx + 1] has been handed to json.loads
scan_candidate(sc, obj) ==
    IF ~obj.ok THEN [sc EXCEPT !.depth = 0, !.obj_start = 0, !.idx = @ + 1]
    ELSE IF IsDict(obj.v) THEN Return(sc, obj.v)
    ELSE [sc EXCEPT !.depth = 0, !.idx = @ + 1]

\* one pass of the loop over the characters (obj_start 0 is None)
scan_char(sc, char) ==
    IF sc.in_str
    THEN (IF sc.esc THEN [sc EXCEPT !.esc = FALSE, !.idx = @ + 1]
          ELSE IF char = "\\" THEN [sc EXCEPT !.esc = TRUE, !.idx = @ + 1]
          ELSE IF char = "\"" THEN [sc EXCEPT !.in_str = FALSE, !.idx = @ + 1]
          ELSE [sc EXCEPT !.idx = @ + 1])
    ELSE IF char = "\"" THEN [sc EXCEPT !.in_str = TRUE, !.idx = @ + 1]
    ELSE IF char = "{"
    THEN [sc EXCEPT !.obj_start = IF sc.depth = 0 THEN sc.idx ELSE @,
                    !.depth = @ + 1, !.idx = @ + 1]
    ELSE IF char = "}"
    THEN (IF sc.depth = 1 /\ sc.obj_start # 0
          THEN scan_candidate(sc, json_loads(SubSeq(sc.string, sc.obj_start, sc.idx)))
          ELSE [sc EXCEPT !.depth = @ - 1, !.idx = @ + 1])
    ELSE [sc EXCEPT !.idx = @ + 1]

load_output_scan ==
    /\ scan.step = "scan"
    /\ scan.idx <= Len(scan.string)
    /\ scan' = scan_char(scan, scan.string[scan.idx])
    /\ UNCHANGED <<pipelineVars, dirs, rep>>

\* the loop has ended without a mapping
load_output_none ==
    /\ scan.step = "scan"
    /\ scan.idx > Len(scan.string)
    /\ scan' = Return(scan, Null)
    /\ UNCHANGED <<pipelineVars, dirs, rep>>

\* prose before the object: none, a word, a closing brace, an opening brace,
\* braces around a word, a quotation mark, a quoted word, a quoted brace,
\* braces and a quotation mark, a fence without and with a language tag,
\* whitespace
Proses ==
    {<<>>,
     <<"a", " ">>,
     <<"a", " ", "}", " ">>,
     <<"a", " ", "{", " ">>,
     <<"{", "a", "}", " ">>,
     <<"a", "\"", " ">>,
     <<"\"", "a", "\"", " ">>,
     <<"\"", "{", "\"", " ">>,
     <<"{", "a", "}", " ", "\"", " ">>,
     <<"tick", "tick", "tick", "\n">>,
     <<"tick", "tick", "tick", "j", "\n">>,
     <<" ", "\n">>}

\* valid JSON objects: empty, one pair, a closing and an opening brace in a
\* string, an escaped quotation mark, a nested object, a repeated key
Objects ==
    {<<"{", "}">>,
     <<"{", "\"", "a", "\"", ":", "1", "}">>,
     <<"{", "\"", "a", "\"", ":", "\"", "}", "\"", "}">>,
     <<"{", "\"", "a", "\"", ":", "\"", "\\", "\"", "\"", "}">>,
     <<"{", "\"", "a", "\"", ":", "{", "\"", "a", "\"", ":", "1", "}", "}">>,
     <<"{", " ", "\"", "a", "\"", " ", ":", " ", "\"", "{", "\"", " ", ",", "\n",
       "\"", "a", "\"", ":", "1", "0", " ", "}">>}

\* text after the object
Trailers ==
    {<<>>,
     <<" ", "a">>,
     <<" ", "}">>,
     <<" ", "{">>,
     <<" ", "\"">>,
     <<"\n", "tick", "tick", "tick">>,
     <<" ", "{", "\"", "a", "\"", ":", "1", "}">>}

InitLoad ==
    /\ IdlePipeline
    /\ dirs = {Root}
    /\ rep = IdleRep
    /\ scan \in {[step |-> "loads", output |-> prose \o object \o trailer, object |-> object] :
                    prose \in Proses, object \in Objects, trailer \in Trailers}

NextLoad ==
    \/ load_output_whole
    \/ load_output_fenced
    \/ load_output_scan
    \/ load_output_none

SpecLoad == InitLoad /\ [][NextLoad]_vars

\* C10: for every provider text made of prose, a valid JSON object and
\* trailing text, load_output returns that object (the prose holds no text
\* that json.loads accepts as an object, so the object is the first
\* candidate that parses to a mapping).
EmbeddedObjectReturned ==
    scan.step = "return" => scan.result = json_loads(scan.object).v

(***************************************************************************)
(* The pipeline with agent outputs that are incomplete or that name a      *)
(* directory.                                                              *)
(***************************************************************************)
\* what the client of an architect's provider does: it returns a complete
\* move, then moves that lack a proposal_id, a path, a function (absent,
\* blank or not a str); it returns no JSON; it raises
PartialDesigns ==
    [m \in {"M1", "M2"} |->
        {Obj([design_moves |->
                 List(<<Obj([proposal_id |-> Tok(m), path |-> Str(UnitPath(m)),
                             function |-> Tok("f")]),
                        Obj([path |-> Str(UnitPath(m)), function |-> Tok("f")]),
                        Obj([proposal_id |-> Tok(m), path |-> Str(<<" ">>),
                             function |-> Tok("f")]),
                        Obj([proposal_id |-> Tok(m), path |-> Str(UnitPath(m)),
                             function |-> Dec(1, 1)])>>)]),
         Null}
        \cup (IF m = "M1" THEN {Raises(<<"TimeoutError: timed out">>)} ELSE {})]

\* what the client of an implementer's provider does: it returns a
\* complete module; modules that lack a path or a content; a module whose
\* path is the directory of the model; it reports an error of the service
PartialModules ==
    [m \in {"M1", "M2"} |->
        {Obj([modules_added_and_updated |->
                 List(<<Obj([path |-> Str(UnitPath(m)), content |-> Str(<<"def_f">>)])>>)]),
         Obj([modules_added_and_updated |->
                 List(<<Obj([path |-> Str(UnitPath(m)), content |-> Str(<<"def_f">>)]),
                        Obj([content |-> Str(<<"def_f">>)]),
                        Obj([path |-> Str(UnitPath(m)), content |-> Str(<<" ">>)]),
                        Obj([path |-> Null, content |-> Null])>>)])}
        \cup (IF m = "M1"
              THEN {Obj([modules_added_and_updated |->
                            List(<<Obj([path |-> Str(PathStr(<<"ws", "code", m>>)),
                                        content |-> Str(<<"def_f">>)])>>)])}
              ELSE {Reports(<<"RateLimitError: 429">>)})]

\* a verdict of the chairman with a summary and an approved edit that name
\* the model
VerdictOn(m, architect, implementer) ==
    Obj([scoring |-> Scoring(architect, Dec(1, 2), implementer, Dec(1, 2)),
         chairman_summary |->
             Obj([added_design_moves |->
                     List(<<Obj([proposal_id |-> Tok(m), goal |-> Str(<<" ", "g">>)])>>)]),
         approved_edits |->
             List(<<Obj([path |-> Str(UnitPath(m)), content |-> Str(<<"def_f">>)])>>)])

\* what the chairman's provider returns, already loaded (Null: no JSON)
SummaryVerdicts ==
    [M1 |-> {VerdictOn("M1", Dec(1, 1), Dec(1, 2))},
     M2 |-> {VerdictOn("M2", Dec(1, 2), Dec(1, 1)), Null},
     iterate |-> {VerdictOn("M1", Dec(1, 4), Dec(3, 4)), VerdictLow, Null}]

NextFaults ==
    \/ load_memory
    \/ normalize_task(Answers)
    \/ load_prompts
    \/ select_role_assignments
    \/ build_agent_inputs
    \/ run_agents
    \/ run_call(PartialDesigns, PartialModules)
    \/ chairman_merge(SummaryVerdicts)
    \/ update_files
    \/ update_directory_structure
    \/ write_memory(Overviews)
    \/ replace_memory_file
    \/ open_memory_file
    \/ dump_memory_file
    \/ close_memory_file
    \/ invoke(FileRuns)

SpecFaults == InitFiles /\ [][NextFaults]_vars

\* C11: no stage of the pipeline raises, whatever the providers return and
\* whatever the workspace holds: the run never stops in chairman_merge on a
\* proposed module path that is an existing directory within the model base.
NoStageRaises == pc # "raised"

\* the ids of the model pool, sorted
PoolIds == SortedKeys(AsDict(DictGet(memory, "model_pool")))

\* the positions of the calls of a role against a model
CallsOf(calls, role, model_id) ==
    {i \in 1..Len(calls) : calls[i].agent_id = role /\ calls[i].model_id = model_id}

\* the parsed output run_agents recorded for the call of a role against a
\* model, {} when there was no such call
LoggedOutput(role, model_id) ==
    IF CallsOf(obs.callLog, role, model_id) = {} THEN Obj(EmptyDict)
    ELSE AsDict(obs.callLog[CHOOSE i \in CallsOf(obs.callLog, role, model_id) : TRUE].output)

\* the cell (role, model) has been updated once: one more observation,
\* stamped with the id of the run
UpdatedOnce(role, model_id) ==
    /\ CellAfter(<<role, model_id>>).f["n"]
          = Num(Int2Rat(CellBefore(<<role, model_id>>).f["n"].q[1] + 1))
    /\ CellAfter(<<role, model_id>>).f["last_used_run_id"] = memory.f["current_run_id"]

\* C12: when chairman_merge has finished a bootstrap run over the pool P,
\* the run had exactly one agent call per (role, model) pair, 2*|P| in all,
\* each executed once; the chairman was called |P| times, once per model id
\* in sorted order, each time on the outputs of the architect and of the
\* implementer of that model; both cells of every model were updated exactly
\* once; the summary and the approved edits of the call for m are stored
\* under the bootstrap bucket of m.
BootstrapFanOut ==
    (pc = "update_files" /\ PhaseOf(task) = "bootstrap") =>
        /\ Len(agent_calls) = 2 * Len(PoolIds)
        /\ Len(obs.callLog) = 2 * Len(PoolIds)
        /\ Len(obs.chairmanLog) = Len(PoolIds)
        /\ \A k \in 1..Len(PoolIds) :
              /\ \A r \in 1..Len(ROLES) :
                    /\ Cardinality(CallsOf(agent_calls, ROLES[r], PoolIds[k])) = 1
                    /\ Cardinality(CallsOf(obs.callLog, ROLES[r], PoolIds[k])) = 1
                    /\ UpdatedOnce(ROLES[r], PoolIds[k])
              /\ obs.chairmanLog[k].bucket = PoolIds[k]
              /\ obs.chairmanLog[k].architect_output = LoggedOutput("architect", PoolIds[k])
              /\ obs.chairmanLog[k].module_comparison
                    = generate_module_comparison(LoggedOutput("implementer", PoolIds[k]),
                                                 ModelBase(memory, PoolIds[k]), dirs, files)
              /\ memory.f["chairman_summary_store"].f["bootstrap"].f[PoolIds[k]]
                    = Get(parse_chairman_output(AsDict(obs.scores[PoolIds[k]])),
                          "chairman_summary")
              /\ memory.f["chairman_edits"].f["bootstrap"].f[PoolIds[k]]
                    = Obj([approved_edits |->
                              Get(parse_chairman_output(AsDict(obs.scores[PoolIds[k]])),
                                  "approved_edits")])

\* a second bootstrap run over two models has been merged: the outputs of
\* the two implementers differ, the chairman has judged both models and its
\* two summaries and two lists of approved edits differ
BootstrapMerged ==
    /\ pc = "update_files"
    /\ PhaseOf(task) = "bootstrap"
    /\ Len(PoolIds) = 2
    /\ CellBefore(<<"architect", "M2">>).f["n"].q[1] = 1
    /\ LoggedOutput("implementer", "M1") # LoggedOutput("implementer", "M2")
    /\ LoggedOutput("architect", "M1") # Obj(EmptyDict)
    /\ obs.scores["M2"] # Null
    /\ memory.f["chairman_summary_store"].f["bootstrap"].f["M1"]
          # memory.f["chairman_summary_store"].f["bootstrap"].f["M2"]
    /\ memory.f["chairman_edits"].f["bootstrap"].f["M1"]
          # memory.f["chairman_edits"].f["bootstrap"].f["M2"]

\* the cells of role_model_stats whose value after chairman_merge is not the
\* value before it
ChangedCells ==
    {c \in UNION {{<<r, m>> : m \in DOMAIN AsDict(memory.f["role_model_stats"].f[r]).f} :
                     r \in DOMAIN memory.f["role_model_stats"].f} :
        \/ c[1] \notin DOMAIN obs.statsBefore.f
        \/ c[2] \notin DOMAIN AsDict(obs.statsBefore.f[c[1]]).f
        \/ CellAfter(c) # CellBefore(c)}

\* the model of highest ucb among the cells of a role before the merge, the
\* first in the order of the ids when several share it
BanditChoice(role) ==
    best_of(obs.statsBefore.f[role], SortedKeys(obs.statsBefore.f[role])).s[1]

\* C13: when chairman_merge has finished an iterate run, the run had exactly
\* two agent calls, one per role, each against the model the bandit assigned
\* to that role, each executed once; the chairman was called exactly once,
\* on the outputs of the two assigned models; no cell of role_model_stats has
\* disappeared, and the only cells whose values differ from before the merge
\* are the cells (role, model assigned to the role), each updated once.
IterateFanOut ==
    (pc = "update_files" /\ PhaseOf(task) = "iterate") =>
        /\ Len(agent_calls) = Len(ROLES)
        /\ Len(obs.callLog) = Len(ROLES)
        /\ \A r \in 1..Len(ROLES) :
              /\ AssignedModel(role_assignments, ROLES[r]) = BanditChoice(ROLES[r])
              /\ Cardinality(CallsOf(agent_calls, ROLES[r], BanditChoice(ROLES[r]))) = 1
              /\ Cardinality(CallsOf(obs.callLog, ROLES[r], BanditChoice(ROLES[r]))) = 1
              /\ UpdatedOnce(ROLES[r], BanditChoice(ROLES[r]))
        /\ Len(obs.chairmanLog) = 1
        /\ obs.chairmanLog[1].architect_output
              = LoggedOutput("architect", BanditChoice("architect"))
        /\ obs.chairmanLog[1].module_comparison
              = generate_module_comparison(
                    LoggedOutput("implementer", BanditChoice("implementer")),
                    ModelBase(memory, FinalModel(memory)), dirs, files)
        /\ \A r \in DOMAIN obs.statsBefore.f :
              /\ r \in DOMAIN memory.f["role_model_stats"].f
              /\ DOMAIN obs.statsBefore.f[r].f \subseteq DOMAIN memory.f["role_model_stats"].f[r].f
        /\ ChangedCells = {<<ROLES[r], BanditChoice(ROLES[r])>> : r \in 1..Len(ROLES)}

\* an iterate run after a bootstrap run has been merged: the bandit has
\* assigned the architect and the implementer to different models, and the
\* two other cells, which hold an observation each, are as they were
IterateMerged ==
    /\ pc = "update_files"
    /\ PhaseOf(task) = "iterate"
    /\ BanditChoice("architect") # BanditChoice("implementer")
    /\ \A r \in 1..Len(ROLES), k \in 1..Len(PoolIds) :
          CellBefore(<<ROLES[r], PoolIds[k]>>).f["n"].q[1] = 1
    /\ Cardinality(ChangedCells) = 2
    /\ LoggedOutput("architect", BanditChoice("architect")) # Obj(EmptyDict)

\* the phase the exploration counters of a memory call for
PhaseByMemory(mem) ==
    IF RLe(mem.f["exploration"].f["warmup_runs"].q, mem.f["exploration"].f["runs_completed"].q)
    THEN "iterate" ELSE "bootstrap"

\* C14: the phase normalize_task gives a run is a function of the memory
\* alone, whatever the operator answers, on the first run of a workspace and
\* on later runs alike: it is iterate exactly when runs_completed >=
\* warmup_runs.  So two executions with the same memory get the same phase.
PhaseFromMemoryAlone ==
    [][pc = "normalize_task" => PhaseOf(task') = PhaseByMemory(memory)]_vars

(***************************************************************************)
(* The pipeline started on a memory.json that holds stored values of       *)
(* every shape.                                                            *)
(***************************************************************************)
\* memory.json as it may be found: absent, or a mapping whose cells, pools,
\* active ids or exploration counters are missing, malformed or out of range
FoundMemories ==
    {Missing}
    \cup {v \in RawMemories :
             /\ IsDict(v)
             /\ DOMAIN v.f \cap {"role_model_stats", "final_model", "chairman_active",
                                 "chairman_pool", "model_pool", "exploration"} # {}}

InitStored ==
    /\ pc = "load_memory"
    /\ runNo = 1
    /\ memFile \in FoundMemories
    /\ prevMemFile = Missing
    /\ taskFile = Missing
    /\ prevTaskFile = Missing
    /\ dirs = {Root}
    /\ files = EmptyDict
    /\ memory = Null
    /\ task = Null
    /\ first_run = FALSE
    /\ role_assignments = Null
    /\ agent_calls = <<>>
    /\ agent_results = EmptyDict
    /\ obs = IdleObs
    /\ rep = IdleRep
    /\ scan = IdleScan

NextStored ==
    \/ load_memory
    \/ normalize_task(Answers)
    \/ load_prompts
    \/ select_role_assignments
    \/ build_agent_inputs
    \/ run_agents
    \/ run_call(Designs, Modules)
    \/ chairman_merge(Verdicts)
    \/ update_files
    \/ update_directory_structure
    \/ write_memory(Overviews)
    \/ replace_memory_file
    \/ open_memory_file
    \/ dump_memory_file
    \/ close_memory_file
    \/ invoke(FileRuns)

SpecStored == InitStored /\ [][NextStored]_vars

\* memory/memory.json holds a whole memory that the program wrote
Persisted == (pc # "load_memory" \/ runNo > 1) /\ IsDict(memFile)

\* the cell of a role and a model that has never been used
DefaultCell ==
    Obj([n |-> Num(Zero), mean_reward |-> Num(Zero), mean_cost |-> Num(Zero),
         last_used_run_id |-> Null, ucb |-> Num(Zero)])

\* role_model_stats holds one cell for every role and every id of the
\* model pool and nothing else
OneCellPerPair(mem) ==
    /\ IsDict(mem.f["role_model_stats"])
    /\ DOMAIN mem.f["role_model_stats"].f = {ROLES[i] : i \in 1..Len(ROLES)}
    /\ \A role \in DOMAIN mem.f["role_model_stats"].f :
          /\ IsDict(mem.f["role_model_stats"].f[role])
          /\ DOMAIN mem.f["role_model_stats"].f[role].f = DOMAIN mem.f["model_pool"].f
          /\ \A m \in DOMAIN mem.f["model_pool"].f :
                /\ IsDict(mem.f["role_model_stats"].f[role].f[m])
                /\ DOMAIN mem.f["role_model_stats"].f[role].f[m].f = DOMAIN DefaultCell.f

\* the cell stored for a role and a model, Null when there is none
StoredCell(raw, role, m) == DictGet(DictGet(DictGet(raw, "role_model_stats"), role), m)

MemberOf(v, pool) == IsStr(v) /\ \E id \in DOMAIN AsDict(pool).f : Strip(v.s) = <<id>>

\* the first of the keys of a pool in the order of str
FirstId(pool) == Tok(SortedKeys(AsDict(pool))[1])

\* final_model is a key of model_pool, chairman_active one of chairman_pool
ActiveIdsInPools(mem) ==
    /\ IsStr(mem.f["final_model"])
    /\ \E id \in DOMAIN mem.f["model_pool"].f : mem.f["final_model"] = Tok(id)
    /\ IsStr(mem.f["chairman_active"])
    /\ \E id \in DOMAIN mem.f["chairman_pool"].f : mem.f["chairman_active"] = Tok(id)

\* C16: in every memory the program has written to memory.json, and in the
\* memory repair_memory returns when the run loads the file, final_model is
\* a key of model_pool and chairman_active is a key of chairman_pool; a
\* stored value that is not a member of its pool has been replaced by the
\* first id of that pool in lexicographic order.
ActiveIdsMembers ==
    /\ Persisted => ActiveIdsInPools(memFile)
    /\ pc = "normalize_task" =>
          /\ ActiveIdsInPools(memory)
          /\ ~MemberOf(DictGet(obs.rawMem, "final_model"), memory.f["model_pool"])
                => memory.f["final_model"] = FirstId(memory.f["model_pool"])
          /\ ~MemberOf(DictGet(obs.rawMem, "chairman_active"), memory.f["chairman_pool"])
                => memory.f["chairman_active"] = FirstId(memory.f["chairman_pool"])

\* the stored final_model was the id of no model of the pool and the stored
\* memory had no chairman_active: the loaded memory and the file hold the
\* first ids of the two pools
NonMemberReplaced ==
    /\ pc = "normalize_task"
    /\ DictGet(obs.rawMem, "final_model") = Tok("M3")
    /\ memory.f["final_model"] = Tok("M1")
    /\ memory.f["chairman_active"] = Tok("C1")
    /\ Cardinality(DOMAIN memory.f["model_pool"].f) = 2
    /\ memFile = memory

\* the value is a whole number within lo..hi
IntegerWithin(v, lo, hi) ==
    /\ IsNumber(v)
    /\ NumOf(v)[2] = 1
    /\ lo <= NumOf(v)[1]
    /\ NumOf(v)[1] <= hi

\* the value is a whole number, not negative
IntegerFromZero(v) ==
    /\ IsNumber(v)
    /\ NumOf(v)[2] = 1
    /\ 0 <= NumOf(v)[1]

\* C19: in the memory repair_memory returns when the run loads memory.json,
\* every exploration value is in its declared domain: warmup_runs is an
\* integer from 0 to 5 and runs_completed is an integer that is not
\* negative, whatever the stored values were.
ExplorationInDomain ==
    pc = "normalize_task" =>
        /\ IntegerWithin(memory.f["exploration"].f["warmup_runs"], 0, 5)
        /\ IntegerFromZero(memory.f["exploration"].f["runs_completed"])

\* the provider of the i-th call of the run failed
ProviderFailed(i) == obs.callLog[i].reply.t \in {"raises", "reports"}

\* C17: a provider failure on an agent call is recorded in the result of
\* that call with an error that is not null and an empty parsed output; it
\* raises nothing and stops nothing: every call of the run is attempted
\* exactly once, in the order of the sorted calls, the loop has a next call
\* until all are done, chairman_merge then starts with a result for each,
\* and a run stops in chairman_merge only on the output of a call whose
\* provider did not fail.
FailureContained ==
    /\ \A i \in 1..Len(obs.callLog) :
          /\ obs.callLog[i].call_id = agent_calls[i].call_id
          /\ \A j \in 1..Len(obs.callLog) :
                obs.callLog[i].call_id = obs.callLog[j].call_id => i = j
          /\ ProviderFailed(i) =>
                /\ obs.callLog[i].call_id \in DOMAIN agent_results
                /\ IsStr(agent_results[obs.callLog[i].call_id].f["error"])
                /\ agent_results[obs.callLog[i].call_id].f["error"].s # <<>>
                /\ agent_results[obs.callLog[i].call_id].f["output"] = Obj(EmptyDict)
    /\ pc = "run_call" => Len(obs.callLog) < Len(agent_calls)
    /\ pc \in {"chairman_merge", "update_files", "write_memory", "end"} =>
          /\ Len(obs.callLog) = Len(agent_calls)
          /\ \A i \in 1..Len(agent_calls) : agent_calls[i].call_id \in DOMAIN agent_results
    /\ pc = "raised" =>
          \E i \in 1..Len(obs.callLog) :
             /\ ~ProviderFailed(i)
             /\ obs.callLog[i].agent_id = "implementer"
             /\ obs.callLog[i].output # Obj(EmptyDict)

\* a bootstrap run has ended and its memory is in memory.json: the client
\* of the first call raised, the third call was made and answered, the
\* client of the fourth reported an error
RunEndedAfterFailures ==
    /\ pc = "end"
    /\ memFile = memory
    /\ Len(obs.callLog) = 4
    /\ obs.callLog[1].reply.t = "raises"
    /\ obs.callLog[3].output # Obj(EmptyDict)
    /\ obs.callLog[4].reply.t = "reports"

(***************************************************************************)
(* The pipeline when the write of memory.json at the end of a run fails.   *)
(***************************************************************************)
\* memory_json_path.open("w") raises: the old file has been renamed, no new
\* file exists; the exception is caught and printed, write_memory returns
open_memory_file_raises ==
    /\ pc = "open_memory_file"
    /\ pc' = "end"
    /\ UNCHANGED <<runNo, memFile, prevMemFile, taskFile, prevTaskFile, dirs, files, memory,
                   task, first_run, role_assignments, agent_calls, agent_results, obs, rep,
                   scan>>

\* json.dump raises after it has written a part of the text: the "with"
\* block closes the file, the exception is caught and printed, write_memory
\* returns
dump_memory_file_raises ==
    /\ pc = "dump_memory_file"
    /\ memFile' = Partial(1)
    /\ pc' = "end"
    /\ UNCHANGED <<runNo, prevMemFile, taskFile, prevTaskFile, dirs, files, memory, task,
                   first_run, role_assignments, agent_calls, agent_results, obs, rep, scan>>

NextWriteFails ==
    \/ load_memory
    \/ normalize_task(Answers)
    \/ load_prompts
    \/ select_role_assignments
    \/ build_agent_inputs
    \/ run_agents
    \/ run_call(Designs, Modules)
    \/ chairman_merge(Verdicts)
    \/ update_files
    \/ update_directory_structure
    \/ write_memory(Overviews)
    \/ replace_memory_file
    \/ open_memory_file
    \/ open_memory_file_raises
    \/ dump_memory_file
    \/ dump_memory_file_raises
    \/ close_memory_file
    \/ invoke(FileRuns)

SpecWriteFails == InitFiles /\ [][NextWriteFails]_vars

\* C18: when the write of memory.json at the end of a run fails, the run
\* does not end there: the write is attempted once more.  When the run has
\* ended and memory.json does not hold the memory of the run, the memory
\* file of before the run is still in the memory directory.
WriteRetriedOnce ==
    [][/\ (pc \in {"open_memory_file", "dump_memory_file"} /\ memFile' # memory /\ pc' = "end")
          => FALSE
       /\ (pc' = "end" /\ memFile' # memory' /\ obs'.preMem # Missing)
          => prevMemFile' = obs'.preMem]_vars

\* the field is a str that is not empty
NonEmptyStr(element, k) == IsStr(Get(element, k)) /\ Get(element, k).s # <<>>

\* the elements run_agents kept in the parsed output of the i-th call
KeptElements(i) ==
    IF obs.callLog[i].agent_id = "architect"
    THEN (IF IsList(Get(obs.callLog[i].output, "design_moves"))
          THEN Get(obs.callLog[i].output, "design_moves").l ELSE <<>>)
    ELSE (IF IsList(Get(obs.callLog[i].output, "modules_added_and_updated"))
          THEN Get(obs.callLog[i].output, "modules_added_and_updated").l ELSE <<>>)

\* the keys an element of the output of a role must carry
RequiredKeys(role) ==
    IF role = "architect" THEN {"proposal_id", "path", "function"} ELSE {"path", "content"}

\* C20: every element kept in a parsed agent output carries all its required
\* keys: every design move of a parsed architect output has a non-empty
\* proposal_id, path and function, and every module of a parsed implementer
\* output has a non-empty path and content.
KeptElementsComplete ==
    \A i \in 1..Len(obs.callLog) :
       \A e \in 1..Len(KeptElements(i)) :
          \A k \in RequiredKeys(obs.callLog[i].agent_id) :
             NonEmptyStr(KeptElements(i)[e], k)

(***************************************************************************)
(* The pipeline with approved edits whose content begins or ends with      *)
(* white space.                                                            *)
(***************************************************************************)
\* an approved edit with the content as the chairman returned it
Padded(path, content) == Obj([path |-> Str(path), content |-> Str(content)])

\* what the chairman's provider returns, already loaded: modules that end
\* with a newline or begin with an indentation, and modules that do neither
PaddedVerdicts ==
    [M1 |-> {Approved(<<Padded(UnitPath("M1"), <<"def_f", "\n">>)>>),
             Approved(<<Padded(UnitPath("M1"), <<"def_f", "\n", "def_g">>)>>)},
     M2 |-> {Approved(<<Padded(UnitPath("M2"), <<" ", "def_g">>)>>),
             Approved(<<Padded(UnitPath("M2"), <<"import_os">>)>>)},
     iterate |-> {Approved(<<Padded(UnitPath("M1"), <<"import_os", "\n", "def_f", "\n">>),
                             Padded(UnitPath("M2"), <<"import_os", "\n", "def_f", "\n">>)>>),
                  Null}]

NextPadded ==
    \/ load_memory
    \/ normalize_task(Answers)
    \/ load_prompts
    \/ select_role_assignments
    \/ build_agent_inputs
    \/ run_agents
    \/ run_call(Designs, Modules)
    \/ chairman_merge(PaddedVerdicts)
    \/ update_files
    \/ update_directory_structure
    \/ write_memory(Overviews)
    \/ replace_memory_file
    \/ open_memory_file
    \/ dump_memory_file
    \/ close_memory_file
    \/ invoke(FileRuns)

SpecPadded == InitFiles /\ [][NextPadded]_vars

\* the approved edits the chairman returned in this run for a bucket of
\* EditBuckets, as they were loaded from its reply
ReturnedEdits(bucket) ==
    LET key == IF PhaseOf(task) = "bootstrap" THEN bucket ELSE "iterate"
    IN IF key \in DOMAIN obs.scores /\ IsList(DictGet(obs.scores[key], "approved_edits"))
       THEN DictGet(obs.scores[key], "approved_edits").l ELSE <<>>

\* a returned edit with a str content whose path resolves within the base
ConfinedEdit(edit, base) ==
    /\ IsDict(edit)
    /\ IsStr(Get(edit, "path"))
    /\ IsStr(Get(edit, "content"))
    /\ Strip(Get(edit, "path").s) # <<>>
    /\ is_within_base(EditPath(edit), base)

\* C21: when update_files has run, for every approved edit the chairman
\* returned in this run whose path is within the base of its bucket, the
\* file at that path holds exactly the returned content string, its leading
\* and trailing white space and its final newline included.
ContentVerbatim ==
    pc = "update_directory_structure" =>
        \A b \in EditBuckets :
           \A i \in 1..Len(ReturnedEdits(b.bucket)) :
              ConfinedEdit(ReturnedEdits(b.bucket)[i], b.base) =>
                  /\ EditPath(ReturnedEdits(b.bucket)[i]) \in DOMAIN files
                  /\ files[EditPath(ReturnedEdits(b.bucket)[i])]
                        = Get(ReturnedEdits(b.bucket)[i], "content").s

(***************************************************************************)
(* Role selection.                                                         *)
(***************************************************************************)
\* the cells of a role in the memory select_role_assignments reads
RoleCells(role) == AsDict(DictGet(DictGet(memory, "role_model_stats"), role))

\* the ids of a role's cells whose ucb no other cell of the role exceeds
TopModels(role) ==
    {m \in DOMAIN RoleCells(role).f :
        \A k \in DOMAIN RoleCells(role).f :
           RLe(CellUcb(RoleCells(role).f[k]), CellUcb(RoleCells(role).f[m]))}

\* C22: when select_role_assignments has run, the mapping is empty in the
\* bootstrap phase; in the iterate phase every role is assigned the id of a
\* cell of highest ucb for that role, the smallest such id in the order of
\* str, and the id is a key of model_pool.
RoleSelection ==
    pc = "build_agent_inputs" =>
        IF PhaseOf(task) = "bootstrap" THEN role_assignments = Obj(EmptyDict)
        ELSE \A r \in 1..Len(AGENTS) :
                /\ AssignedModel(role_assignments, AGENTS[r]) \in TopModels(AGENTS[r])
                /\ \A m \in TopModels(AGENTS[r]) :
                      ~StrLess(<<m>>, <<AssignedModel(role_assignments, AGENTS[r])>>)
                /\ AssignedModel(role_assignments, AGENTS[r])
                      \in DOMAIN AsDict(DictGet(memory, "model_pool")).f

\* an iterate run after the cells have been updated: the architect's cells
\* share the highest ucb and the first id is chosen, while the implementer
\* goes to the only cell of highest ucb, which is not the first id
RolesSelected ==
    /\ pc = "build_agent_inputs"
    /\ PhaseOf(task) = "iterate"
    /\ Cardinality(TopModels("architect")) > 1
    /\ AssignedModel(role_assignments, "architect") = "M1"
    /\ TopModels("implementer") = {"M2"}
    /\ AssignedModel(role_assignments, "implementer") = "M2"
    /\ \A r \in 1..Len(AGENTS) : \A m \in DOMAIN RoleCells(AGENTS[r]).f :
          NumOf(DictGet(RoleCells(AGENTS[r]).f[m], "n"))[1] >= 1

(***************************************************************************)
(* Rotation of task.json.                                                  *)
(***************************************************************************)
\* C23: when a run has ended, task/task.json holds the task of the run and,
\* if task/task.json existed when the run started, task/previous_task.json
\* holds what task/task.json held at that time.
TaskRotated ==
    pc = "end" =>
        /\ taskFile = task
        /\ obs.startTask # Missing => prevTaskFile = obs.startTask

(***************************************************************************)
(* The pipeline around the chairman's review of the code.                  *)
(***************************************************************************)
\* memory.json as earlier runs may have left it: one or two runs before a
\* review is due, or with a counter below zero, with priorities stored in
\* the iterate summary
ReviewedMemories ==
    {Obj([exploration |-> Obj([warmup_runs |-> Dec(3, 1), runs_completed |-> Dec(n, 1)]),
          chairman_summary_store |-> Obj([iterate |-> Obj([next_priorities |-> List(l)])])]) :
        n \in {-4, 1, 2, 5},
        l \in {<<>>, <<Tok("b")>>, <<Tok("a"), Tok("b")>>, <<Tok("b"), Dec(1, 1), Tok("c")>>}}

\* what the chairman's provider returns when it reviews the code, already
\* loaded (Null: no JSON)
RepeatingOverviews ==
    {Obj([next_priorities |-> List(l)]) :
        l \in {<<Tok("a"), Tok("a")>>, <<Tok("a"), Tok("b")>>, <<Tok("c"), Null, Tok("a")>>}}
    \cup {Obj(EmptyDict), Null}

InitOverview ==
    /\ pc = "load_memory"
    /\ runNo = 1
    /\ memFile \in ReviewedMemories
    /\ prevMemFile = Missing
    /\ taskFile = Missing
    /\ prevTaskFile = Missing
    /\ dirs = {Root}
    /\ files = EmptyDict
    /\ memory = Null
    /\ task = Null
    /\ first_run = FALSE
    /\ role_assignments = Null
    /\ agent_calls = <<>>
    /\ agent_results = EmptyDict
    /\ obs = IdleObs
    /\ rep = IdleRep
    /\ scan = IdleScan

NextOverview ==
    \/ load_memory
    \/ normalize_task(Answers)
    \/ load_prompts
    \/ select_role_assignments
    \/ build_agent_inputs
    \/ run_agents
    \/ run_call(Designs, Modules)
    \/ chairman_merge(Verdicts)
    \/ update_files
    \/ update_directory_structure
    \/ write_memory(RepeatingOverviews)
    \/ replace_memory_file
    \/ open_memory_file
    \/ dump_memory_file
    \/ close_memory_file
    \/ invoke(FileRuns)

SpecOverview == InitOverview /\ [][NextOverview]_vars

\* the strings of chairman_summary_store.iterate.next_priorities
StoredPriorities(mem) ==
    LET iterate == DictGet(DictGet(mem, "chairman_summary_store"), "iterate")
    IN IF IsList(DictGet(iterate, "next_priorities"))
       THEN SelectSeq(DictGet(iterate, "next_priorities").l, LAMBDA x : IsStr(x)) ELSE <<>>

\* the run whose memory this is ends on a multiple of three
ReviewDue(mem) ==
    LET runs_completed == PyInt(NumOf(mem.f["exploration"].f["runs_completed"]))
    IN runs_completed % 3 = 0 /\ runs_completed >= 3

\* C24: a step of write_memory in which the chairman reviews the code
\* leaves in chairman_summary_store.iterate.next_priorities a list without
\* a repeated string that is some priorities followed by the strings stored
\* before, each string kept at its first occurrence only.
PrioritiesMerged ==
    [][(pc = "write_memory" /\ ReviewDue(memory')) =>
          /\ \A i, j \in 1..Len(StoredPriorities(memory')) :
                StoredPriorities(memory')[i] = StoredPriorities(memory')[j] => i = j
          /\ \E k \in 0..Len(StoredPriorities(memory')) :
                StoredPriorities(memory')
                   = AppendNew(SubSeq(StoredPriorities(memory'), 1, k),
                               StoredPriorities(memory))]_vars

(***************************************************************************)
(* When the chairman reviews the code.                                     *)
(***************************************************************************)
\* the stages of a run after write_memory has advanced the memory
AfterAdvance ==
    {"replace_memory_file", "open_memory_file", "dump_memory_file", "close_memory_file", "end"}

\* C25: in every run the counter write_memory stores is the loaded one plus
\* one; the chairman reviews the code once when that counter is a multiple
\* of three from 3 on and not at all otherwise, in no stage before
\* write_memory; and when the review has been made memory.json has not yet
\* been moved to previous_memory.json.
OverviewEveryThird ==
    /\ pc \notin AfterAdvance => obs.overviewLog = <<>>
    /\ pc \in AfterAdvance =>
          /\ PyInt(NumOf(memory.f["exploration"].f["runs_completed"]))
                = PyInt(NumOf(obs.startRuns)) + 1
          /\ Len(obs.overviewLog) = (IF ReviewDue(memory) THEN 1 ELSE 0)
    /\ pc = "replace_memory_file" => memFile = obs.preMem

\* the second run of a sequence ends after the review, the run before it
\* ended without one
OverviewMade ==
    /\ pc = "end"
    /\ runNo = 2
    /\ Len(obs.overviewLog) = 1
    /\ PyInt(NumOf(memory.f["exploration"].f["runs_completed"])) \in {3, 6}
    /\ prevMemFile # Missing
    /\ ~ReviewDue(prevMemFile)

(***************************************************************************)
(* The run id of the provider payloads.                                    *)
(***************************************************************************)
\* metadata.run_id of the payloads issued so far in the run: by run_agents,
\* by chairman_merge and by chairman_overview
PayloadRunIds ==
    {obs.callLog[i].run_id : i \in 1..Len(obs.callLog)}
    \cup {obs.chairmanLog[i].run_id : i \in 1..Len(obs.chairmanLog)}
    \cup {obs.overviewLog[i].run_id : i \in 1..Len(obs.overviewLog)}

\* C26: every provider payload issued in a run carries as metadata.run_id
\* the current_run_id of the memory loaded at the start of that run.
RunIdShared == \A id \in PayloadRunIds : id = obs.startId.s

(***************************************************************************)
(* A chairman call without a verdict.                                      *)
(***************************************************************************)
\* C27: when chairman_merge has finished, the cells under review in a
\* chairman call whose reply held no object are as they were before the
\* merge.
NoVerdictKeepsCells ==
    pc = "update_files" =>
        \A c \in UpdatedCells : obs.scores[c[3]] = Null => CellAfter(c) = CellBefore(c)

(***************************************************************************)
(* Approved edits of earlier runs.                                         *)
(***************************************************************************)
\* the approved edits memory.json holds, from the run before, for a bucket
\* of EditBuckets
PersistedEdits(bucket) ==
    LET chairman_edits == DictGet(memFile, "chairman_edits")
    IN IF PhaseOf(task) = "bootstrap"
       THEN BucketEdits(DictGet(DictGet(chairman_edits, "bootstrap"), bucket))
       ELSE BucketEdits(DictGet(chairman_edits, "iterate"))

\* C28: when update_files has run, every file it wrote for a bucket is at
\* the resolved path of an edit the chairman returned for that bucket in
\* this same run, and every file it created or modified is one it wrote; so
\* a bucket whose chairman call returned no object has written nothing,
\* whatever an earlier run left in memory.chairman_edits.
NoStaleEdit ==
    pc = "update_directory_structure" =>
        /\ \A w \in obs.written :
              \E i \in 1..Len(ReturnedEdits(w[1])) :
                 /\ IsDict(ReturnedEdits(w[1])[i])
                 /\ IsStr(Get(ReturnedEdits(w[1])[i], "path"))
                 /\ IsStr(Get(ReturnedEdits(w[1])[i], "content"))
                 /\ EditPath(ReturnedEdits(w[1])[i]) = w[2]
        /\ \A p \in ChangedFiles : \E w \in obs.written : w[2] = p

\* a later run whose chairman call returned no object, over a memory.json
\* in which the run before left an approved edit for the same bucket that
\* it had written to disk: this run has written nothing
StaleEditSkipped ==
    /\ pc = "update_directory_structure"
    /\ runNo > 1
    /\ IsDict(memFile)
    /\ obs.written = {}
    /\ \E b \in EditBuckets :
          /\ (IF PhaseOf(task) = "bootstrap" THEN b.bucket ELSE "iterate") \in DOMAIN obs.scores
          /\ obs.scores[IF PhaseOf(task) = "bootstrap" THEN b.bucket ELSE "iterate"] = Null
          /\ \E i \in 1..Len(PersistedEdits(b.bucket)) :
                /\ PassesEdit(PersistedEdits(b.bucket)[i], b.base)
                /\ EditPath(PersistedEdits(b.bucket)[i]) \in DOMAIN files

(***************************************************************************)
(* final_model after the warmup.                                           *)
(***************************************************************************)
\* C29: write_memory of an iterate run after which parse_task gives the
\* next run the phase iterate leaves final_model as it was: between two
\* iterate runs final_model does not change.
FinalModelKept ==
    [][(pc = "write_memory" /\ PhaseOf(task) = "iterate"
           /\ parse_task(memory', task).f["phase"] = Tok("iterate"))
          => FinalModel(memory') = FinalModel(memory)]_vars

(***************************************************************************)
(* The ids of the pools.                                                   *)
(***************************************************************************)
\* the pools of a memory hold the built-in ids and no other
DefaultPools(mem) ==
    /\ DOMAIN AsDict(DictGet(mem, "model_pool")).f = DOMAIN model_defaults
    /\ DOMAIN AsDict(DictGet(mem, "chairman_pool")).f = DOMAIN chairman_defaults

\* C30: the memory of a run, once load_memory has repaired it, and every
\* memory.json the program has written hold a model_pool whose keys are
\* exactly M1 and M2 and a chairman_pool whose only key is C1; every agent
\* call built or executed is for M1 or M2 and the active chairman is C1.
PoolsAreDefaults ==
    /\ DOMAIN model_defaults = {"M1", "M2"}
    /\ DOMAIN chairman_defaults = {"C1"}
    /\ IsDict(memory) =>
          /\ DefaultPools(memory)
          /\ memory.f["chairman_active"] = Tok("C1")
    /\ Persisted => DefaultPools(memFile)
    /\ \A i \in 1..Len(agent_calls) : agent_calls[i].model_id \in DOMAIN model_defaults
    /\ \A i \in 1..Len(obs.callLog) : obs.callLog[i].model_id \in DOMAIN model_defaults

\* a run has ended over a stored model_pool that held M3 and neither M1 nor
\* M2: its calls went to M1 and M2, and memory.json holds the two defaults
UserModelRemoved ==
    /\ pc = "end"
    /\ DOMAIN AsDict(DictGet(obs.rawMem, "model_pool")).f = {"M3"}
    /\ {obs.callLog[i].model_id : i \in 1..Len(obs.callLog)} = {"M1", "M2"}
    /\ DefaultPools(memFile)
    /\ memFile.f["model_pool"].f["M1"] = model_defaults["M1"]

====
